---------------------------- MODULE Spec2Model ----------------------------
(***************************************************************************)
(* Metabolic BioTwin: the statistical insight engine (app/ml) and the      *)
(* insights endpoint that consumes it (app/api).                           *)
(*                                                                         *)
(* Conventions.  A table cell or an optional result is a tuple: <<>> is a  *)
(* missing value (NaN / None) and <<v>> an observed value v.  Python       *)
(* indices are 0-based and kept so in the loops; sequences are 1-based,    *)
(* so s.iloc[i] is s[i+1].                                                 *)
(***************************************************************************)
EXTENDS Integers, Sequences, FiniteSets, TLC

VARIABLES
    pc,        \* "input" before the call under study, "returned" after it
    dates,     \* anomaly_runs: the dates argument
    series,    \* anomaly_runs: the series argument
    min_run,   \* anomaly_runs: the min_run argument
    runs,      \* anomaly_runs: the returned list
    x,         \* corr_with_p: the x argument
    y,         \* corr_with_p: the y argument
    method,    \* corr_with_p: the method argument
    corr_ret,  \* corr_with_p: the returned (r, p, n)
    daily,     \* discover_hidden_correlations: the caller's daily table
    meals,     \* discover_hidden_correlations: the caller's meals table
    stat,      \* what scipy computes for each pair of columns of the data
    disc_ret,  \* discover_hidden_correlations: the outcome of the call
    df,        \* doubly_robust_ate: the df argument
    roles,     \* doubly_robust_ate: treat_col, outcome_col, confounders
    ate_ret,   \* doubly_robust_ate: the outcome of the call
    session_data,  \* app.api.ingest.session_data: session id -> stored tables
    resp,      \* the service: what the last request returned or raised
    max_lag,   \* find_lag_correlations: the max_lag argument
    lag_ret,   \* find_lag_correlations: the outcome of the call
    np_random, \* numpy's process-global RandomState (np.random)
    calls,     \* concurrent estimator calls: call id -> where it is, its result
    fit,       \* doubly_robust_ate: T, Y and the fitted p, mu0, mu1 of each row of use
    dr_est,    \* doubly_robust_ate: the scores dr, and ate and ci computed from them
    rate_limits,  \* HealthDataSecurity.rate_limits: key -> the kept timestamps
    clock,     \* datetime.utcnow(), in ticks
    rate_log   \* check_rate_limit: the times of the calls that returned True, by
               \* (session_id, action), and the last call with its result

anomVars == <<dates, series, min_run, runs>>
corrVars == <<x, y, method, corr_ret>>
discVars == <<daily, meals, stat, disc_ret>>
ateVars == <<df, roles, ate_ret>>
svcVars == <<session_data, resp>>
lagVars == <<max_lag, lag_ret>>
concVars == <<calls>>
drVars == <<fit, dr_est>>
rateVars == <<rate_limits, clock, rate_log>>
vars == <<pc, anomVars, corrVars, discVars, ateVars, svcVars, lagVars, np_random, concVars,
          drVars, rateVars>>

NA == <<>>
IsNA(c) == c = <<>>
NotNA(c) == c # <<>>
Max(a, b) == IF a >= b THEN a ELSE b
Min(a, b) == IF a <= b THEN a ELSE b
Abs(a) == IF a >= 0 THEN a ELSE 0 - a

\* The sum of xs[lo..hi], and the sum of a sequence of integers.
RECURSIVE SumRange(_, _, _)
SumRange(xs, lo, hi) ==
    IF lo > hi THEN 0
    ELSE IF lo = hi THEN xs[lo]
    ELSE LET mid == (lo + hi) \div 2
         IN  SumRange(xs, lo, mid) + SumRange(xs, mid + 1, hi)

SumSeq(xs) == SumRange(xs, 1, Len(xs))

\* The concatenation of the sequences segs[lo], ..., segs[hi].
RECURSIVE Flatten(_, _, _)
Flatten(segs, lo, hi) ==
    IF lo > hi THEN <<>>
    ELSE IF lo = hi THEN segs[lo]
    ELSE LET mid == (lo + hi) \div 2
         IN  Flatten(segs, lo, mid) \o Flatten(segs, mid + 1, hi)

(***************************************************************************)
(* app/ml/anomalies.py                                                     *)
(***************************************************************************)
window == 14
min_periods == 7
\* k = 2.5 in tenths
K10 == 25
\* 1.4826 in ten-thousandths
MadScale == 14826

\* The observed (non-NaN) values of a sequence of cells, as integers.
Observed(w) ==
    LET kept == SelectSeq(w, NotNA)
    IN  [i \in 1..Len(kept) |-> kept[i][1]]

\* k-th smallest (1-based) of a non-empty sequence of integers.
Kth(xs, k) ==
    CHOOSE v \in {xs[i] : i \in 1..Len(xs)} :
        /\ Cardinality({i \in 1..Len(xs) : xs[i] < v}) < k
        /\ Cardinality({i \in 1..Len(xs) : xs[i] <= v}) >= k

\* numpy/pandas median of a non-empty sequence of integers, doubled (the
\* mean of the two middle values of an even count is a half-integer).
Median2(xs) ==
    LET n == Len(xs)
    IN  IF n % 2 = 1 THEN 2 * Kth(xs, (n + 1) \div 2)
        ELSE Kth(xs, n \div 2) + Kth(xs, n \div 2 + 1)

\* The trailing window of s ending at 1-based index i.
RollWindow(s, i) == SubSeq(s, Max(1, i - window + 1), i)

\* s.rolling(window, min_periods=7).median() at index i, doubled: NaN values
\* are skipped, fewer than min_periods observations give NaN.
RollingMedian2(s, i) ==
    LET obs == Observed(RollWindow(s, i))
    IN  IF Len(obs) >= min_periods THEN <<Median2(obs)>> ELSE NA

\* s.rolling(window, min_periods=7).apply(lambda x: median(|x - median(x)|),
\* raw=True) at index i, times 4.  apply() calls the function only when the
\* window holds min_periods observations, and then hands it the raw window
\* with its NaN values: numpy's median of an array holding a NaN is NaN.
RollingMad4(s, i) ==
    LET w == RollWindow(s, i)
        obs == Observed(w)
    IN  IF Len(obs) < min_periods THEN NA
        ELSE IF \E j \in 1..Len(w) : IsNA(w[j]) THEN NA
        ELSE LET m2 == Median2(obs)
                 dev2 == [j \in 1..Len(obs) |-> Abs(2 * obs[j] - m2)]
             IN  <<Median2(dev2)>>

\* rolling_median_mad: (z, med).  z[i] is NaN or the pair <<num, mad4>> that
\* stands for z = (num/4) / (1.4826 * (mad4/4 + 1e-6)), num = 4*(s[i]-med[i]);
\* med[i] is NaN or <<2*median>>.
rolling_median_mad(s) ==
    LET med == [i \in 1..Len(s) |-> RollingMedian2(s, i)]
        mad == [i \in 1..Len(s) |-> RollingMad4(s, i)]
        z == [i \in 1..Len(s) |->
                IF IsNA(s[i]) \/ IsNA(med[i]) \/ IsNA(mad[i]) THEN NA
                ELSE <<4 * s[i][1] - 2 * med[i][1], mad[i][1]>>]
    IN  [z |-> z, med |-> med]

\* A comparison that lets NaN through: ~(z <= k) instead of z > k.
ZExceeds_NanPasses(zi, k10) ==
    \/ IsNA(zi)
    \/ zi[1] * 100000 - k10 * MadScale * zi[2] > (k10 * 4 * MadScale) \div 1000000

\* z > k for z = (num/4) / (1.4826 * (mad4/4 + 1e-6)) and k = k10/10:
\*   num * 10^5 - k10 * 14826 * mad4 > k10 * 14826 * 4e-6 = k10 * 59304 / 10^6
\* and, the left side being an integer, it exceeds a real e iff it exceeds
\* floor(e).  NaN > k is False.
ZExceeds(zi, k10) ==
    /\ NotNA(zi)
    /\ zi[1] * 100000 - k10 * MadScale * zi[2] > (k10 * 4 * MadScale) \div 1000000

\* flags = (z > k).astype(int)
Flags(z, k10) == [i \in 1..Len(z) |-> IF ZExceeds(z[i], k10) THEN 1 ELSE 0]

\* float(series.iloc[a:b].mean()) for 0-based a, b: pandas skips NaN; kept
\* as the sum and the count of the observed values.
SliceMean(s, a, b) ==
    LET obs == Observed(SubSeq(s, a + 1, b))
    IN  [sum |-> SumSeq(obs), cnt |-> Len(obs)]

\* A run test that keeps every run, whatever its length.
RunLongEnough_Always(i, start, mr) == TRUE

\* An off-by-one length test.
RunLongEnough_Strict(i, start, mr) == i - start > mr

\* The length test of a run that ends before index i (or at the series end,
\* i = len(series)).
RunLongEnough(i, start, mr) == i - start >= mr

\* One run tuple: (dates[start], dates[i-1], mean(series[start:i]), med[i-1]).
\* The tuple of a run with the mean taken without the run's last point.
RunTuple_MeanShort(d, s, med, start, i) ==
    [start_date |-> d[start + 1], end_date |-> d[i],
     mean |-> SliceMean(s, start, i - 1), baseline2 |-> med[i]]

RunTuple(d, s, med, start, i) ==
    [start_date |-> d[start + 1], end_date |-> d[i],
     mean |-> SliceMean(s, start, i), baseline2 |-> med[i]]

\* The body of "for i, v in enumerate(flags)", from index i on.  st.start is
\* None (<<>>) or <<start>>.
RECURSIVE ScanFlags(_, _, _, _, _, _, _)
ScanFlags(d, s, med, flags, mr, i, st) ==
    IF i = Len(flags) THEN st
    ELSE
        LET v == flags[i + 1]
            start1 == IF st.start = NA /\ v = 1 THEN <<i>> ELSE st.start
        IN  IF start1 # NA /\ v = 0
            THEN ScanFlags(d, s, med, flags, mr, i + 1,
                           [start |-> NA,
                            runs |-> IF RunLongEnough(i, start1[1], mr)
                                     THEN Append(st.runs, RunTuple(d, s, med, start1[1], i))
                                     ELSE st.runs])
            ELSE ScanFlags(d, s, med, flags, mr, i + 1, [start |-> start1, runs |-> st.runs])

\* The loop's result with the open run forgotten.
CloseAtEnd_Forgotten(d, s, med, mr, st) == st.runs

\* The run still open when the loop ends.
CloseAtEnd(d, s, med, mr, st) ==
    IF st.start # NA /\ RunLongEnough(Len(s), st.start[1], mr)
    THEN Append(st.runs, RunTuple(d, s, med, st.start[1], Len(s)))
    ELSE st.runs

anomaly_runs(d, s, k10, mr) ==
    LET zm == rolling_median_mad(s)
        flags == Flags(zm.z, k10)
        st == ScanFlags(d, s, zm.med, flags, mr, 0, [start |-> NA, runs |-> <<>>])
    IN  CloseAtEnd(d, s, zm.med, mr, st)

(***************************************************************************)
(* app/ml/correlations.py                                                  *)
(*                                                                         *)
(* r and p are kept in thousandths.  A statistic is None, NaN or a number. *)
(* scipy's pearsonr/spearmanr are not part of the repository: what they    *)
(* return for a pair of columns is an input of the model (an oracle).      *)
(***************************************************************************)
None == [tag |-> "None", v |-> 0]
NaN == [tag |-> "nan", v |-> 0]
Num(v) == [tag |-> "num", v |-> v]
IsNum(s) == s.tag = "num"

\* corr_with_p: below this many paired observations there is no result.
MinPairs == 14
\* discover_hidden_correlations: min_correlation = 0.3, p < 0.05, n >= 20.
min_correlation == 300
PMax == 50
MinDiscoverN == 20
TopN == 10

\* A count of the positions where x alone is present.
MaskSum_XOnly(xs, ys) == Len(Observed(xs))

\* A cell that holds text, not a number: the triple <<v, 0, 0>> for the
\* v-th string (a number is <<v>>, a mean <<sum, count>>).  isna() is False
\* for it.
Text(v) == <<v, 0, 0>>
IsText(c) == Len(c) = 3

\* An exception that leaves the call, in the place of a statistic.
Thrown(exc) == [tag |-> exc, v |-> 0]

\* s.isna() at label i of the index that x.isna() | y.isna() is aligned on
\* (positions, for two series with the default index): a label that s does
\* not have is filled with False.
IsNaAt(s, i) == i <= Len(s) /\ IsNA(s[i])

\* mask = ~(x.isna() | y.isna()): the labels where it is True.  For x and y
\* of one length these are the positions where both values are present.
Mask(xs, ys) == {i \in 1..Max(Len(xs), Len(ys)) : ~(IsNaAt(xs, i) \/ IsNaAt(ys, i))}

\* mask.sum()
MaskSum(xs, ys) == Cardinality(Mask(xs, ys))

\* s[mask]: the labels of s that the mask selects.
Masked(s, mask) == {i \in mask : i <= Len(s)}

\* corr_with_p(x, y, method); sp.pearson and sp.spearman are what pearsonr
\* and spearmanr return on the masked values, each [r, p].  Nothing is
\* tested before scipy is called but the size of the mask.  scipy raises
\* ValueError for two arrays of different lengths; on text pearsonr raises
\* TypeError, and spearmanr ranks the strings or raises (sp.text).
corr_with_p(xs, ys, meth, sp) ==
    LET mask == Mask(xs, ys)
        n == MaskSum(xs, ys)
        xm == Masked(xs, mask)
        ym == Masked(ys, mask)
        text == (\E i \in xm : IsText(xs[i])) \/ (\E i \in ym : IsText(ys[i]))
    IN  IF n < MinPairs
        THEN [r |-> None, p |-> None, n |-> 0]
        ELSE IF Cardinality(xm) # Cardinality(ym)
        THEN [r |-> Thrown("ValueError"), p |-> Thrown("ValueError"), n |-> 0]
        ELSE IF text /\ (meth = "pearson" \/ sp.text = "TypeError")
        THEN [r |-> Thrown("TypeError"), p |-> Thrown("TypeError"), n |-> 0]
        ELSE LET rp == IF meth = "pearson" THEN sp.pearson ELSE sp.spearman
             IN  [r |-> rp.r, p |-> rp.p, n |-> n]

\* The metric names as sequences of code points, for Python's string order.
NameCode ==
    "sleep_hours" :> <<115, 108, 101, 101, 112, 95, 104, 111, 117, 114, 115>> @@
    "hrv" :> <<104, 114, 118>> @@
    "rhr" :> <<114, 104, 114>> @@
    "fg_fast_mgdl" :> <<102, 103, 95, 102, 97, 115, 116, 95, 109, 103, 100, 108>> @@
    "steps" :> <<115, 116, 101, 112, 115>> @@
    "workout_min" :> <<119, 111, 114, 107, 111, 117, 116, 95, 109, 105, 110>> @@
    "carbs_g" :> <<99, 97, 114, 98, 115, 95, 103>> @@
    "protein_g" :> <<112, 114, 111, 116, 101, 105, 110, 95, 103>> @@
    "fat_g" :> <<102, 97, 116, 95, 103>> @@
    "fiber_g" :> <<102, 105, 98, 101, 114, 95, 103>> @@
    "late_meal" :> <<108, 97, 116, 101, 95, 109, 101, 97, 108>> @@
    "post_meal_walk10" :> <<112, 111, 115, 116, 95, 109, 101, 97, 108, 95, 119, 97, 108, 107, 49, 48>> @@
    "meal_auc" :> <<109, 101, 97, 108, 95, 97, 117, 99>> @@
    "meal_peak" :> <<109, 101, 97, 108, 95, 112, 101, 97, 107>>

\* Python's str <: lexicographic on code points, a proper prefix first.
RECURSIVE LexLt(_, _)
LexLt(a, b) ==
    IF b = <<>> THEN FALSE
    ELSE IF a = <<>> THEN TRUE
    ELSE IF Head(a) # Head(b) THEN Head(a) < Head(b)
    ELSE LexLt(Tail(a), Tail(b))

\* tuple(sorted([metric1, metric2]))
SortedPair(m1, m2) ==
    IF LexLt(NameCode[m2], NameCode[m1]) THEN <<m2, m1>> ELSE <<m1, m2>>

obvious_pairs ==
    << <<"carbs_g", "meal_auc">>,
       <<"carbs_g", "meal_peak">>,
       <<"sleep_hours", "hrv">>,
       <<"steps", "workout_min">>,
       <<"protein_g", "fat_g">> >>

\* _is_hidden_correlation: tuple(sorted([m1, m2])) not in obvious_pairs.
is_hidden_correlation(m1, m2) ==
    ~ \E i \in 1..Len(obvious_pairs) : obvious_pairs[i] = SortedPair(m1, m2)

actionable_metrics == {"sleep_hours", "late_meal", "post_meal_walk10", "fiber_g", "workout_min"}

\* _is_actionable_correlation
is_actionable_correlation(m1, m2) == m1 \in actionable_metrics \/ m2 \in actionable_metrics

health_metrics == <<"sleep_hours", "hrv", "rhr", "fg_fast_mgdl", "steps", "workout_min">>
nutrition_metrics == <<"carbs_g", "protein_g", "fat_g", "fiber_g", "late_meal", "post_meal_walk10">>
metabolic_metrics == <<"meal_auc", "meal_peak">>
all_metrics == health_metrics \o nutrition_metrics \o metabolic_metrics

SumCols == <<"carbs_g", "protein_g", "fat_g", "fiber_g", "late_meal", "post_meal_walk10">>
MeanCols == <<"meal_auc", "meal_peak">>

(***************************************************************************)
(* Tables.  A table is [cols, date_dtype, rows]: the set of column names,  *)
(* the type of the date column's values ("date" for datetime.date objects, *)
(* "datetime64" after pd.to_datetime) and the rows, each a function from   *)
(* the columns to cells.  A date cell is <<day number>>.                   *)
(***************************************************************************)
Column(t, c) == [i \in 1..Len(t.rows) |-> t.rows[i][c]]

\* t['date'] = pd.to_datetime(t['date'])
ToDatetime(t) == [t EXCEPT !.date_dtype = "datetime64"]

\* agg_spec: the aggregated meal columns present in the meals table.
AggSpec(m) ==
    [sum |-> {c \in m.cols : \E i \in 1..Len(SumCols) : SumCols[i] = c},
     mean |-> {c \in m.cols : \E i \in 1..Len(MeanCols) : MeanCols[i] = c}]

\* The sorted distinct non-missing dates of a table.
SortedSet(S) ==
    [k \in 1..Cardinality(S) |-> CHOOSE a \in S : Cardinality({b \in S : b < a}) = k - 1]

GroupKeys(m) ==
    SortedSet({m.rows[i]["date"][1] : i \in {j \in 1..Len(m.rows) : NotNA(m.rows[j]["date"])}})

\* One group's cells of column c, in row order.
GroupCells(m, day, c) ==
    Column([m EXCEPT !.rows = SelectSeq(m.rows, LAMBDA r : r["date"] = <<day>>)], c)

\* groupby("date").agg(agg_spec).reset_index(): one row per date, in date
\* order.  "sum" skips NaN and is 0 for a group with no observed value;
\* "mean" skips NaN and is NaN for such a group; a mean is kept as the
\* pair <<sum, count>>.
GroupByDateAgg(m, spec) ==
    LET keys == GroupKeys(m)
        cell(day, c) ==
            LET obs == Observed(GroupCells(m, day, c))
            IN  IF c \in spec.sum THEN <<SumSeq(obs)>>
                ELSE IF obs = <<>> THEN NA
                ELSE <<SumSeq(obs), Len(obs)>>
    IN  [cols |-> {"date"} \cup spec.sum \cup spec.mean,
         date_dtype |-> m.date_dtype,
         rows |-> [k \in 1..Len(keys) |->
                     [c \in {"date"} \cup spec.sum \cup spec.mean |->
                        IF c = "date" THEN <<keys[k]>> ELSE cell(keys[k], c)]]]

\* left.merge(right, on="date", how="inner"): for each left row in order,
\* one row per right row of the same date.  A column other than date that
\* both tables have is renamed (suffixes _x, _y) and so is no longer found
\* under its own name: it is left out of cols.
MergeRows(lrows, right, lcols, rcols) ==
    LET joined(l) ==
            LET match == SelectSeq(right.rows, LAMBDA r : r["date"] = l["date"])
            IN  [k \in 1..Len(match) |->
                    [c \in lcols \cup rcols |-> IF c \in lcols THEN l[c] ELSE match[k][c]]]
    IN  Flatten([i \in 1..Len(lrows) |-> joined(lrows[i])], 1, Len(lrows))

MergeInner(left, right) ==
    LET both == (left.cols \cap right.cols) \ {"date"}
        lcols == left.cols \ both
        rcols == (right.cols \ both) \ {"date"}
    IN  [cols |-> lcols \cup rcols,
         date_dtype |-> left.date_dtype,
         rows |-> MergeRows(left.rows, right, lcols, rcols)]

\* What scipy returns for the pair of catalog columns (m1, m2) of the data.
\* The values of the data are not modelled; st = [a, b] names one filling
\* of the pairs from the palettes of results.
RPalette == <<Num(900), Num(-700), Num(700), Num(-450), Num(300), Num(299), NaN>>
PPalette == <<Num(1), Num(49), Num(10), Num(50), Num(5)>>
MetricIndex(m) == CHOOSE i \in 1..Len(all_metrics) : all_metrics[i] = m
Scipy(st, m1, m2) ==
    LET k == Len(all_metrics) * MetricIndex(m1) + MetricIndex(m2)
        r(o) == RPalette[((st.a * k + st.b + o) % Len(RPalette)) + 1]
        p(o) == PPalette[((k + st.b + o) % Len(PPalette)) + 1]
        rp(o) == IF r(o).tag = "nan" THEN [r |-> r(o), p |-> r(o)] ELSE [r |-> r(o), p |-> p(o)]
    IN  [pearson |-> rp(1), spearman |-> rp(0)]

\* itertools.combinations(seq, 2)
Combinations2(av) ==
    Flatten([i \in 1..(Len(av) - 1) |-> [j \in 1..(Len(av) - i) |-> <<av[i], av[i + j]>>]],
            1, Len(av) - 1)

\* The test that keeps a pair, without its sample-size part.
KeepPair_AnyN(c) ==
    /\ c.r.tag # "None"
    /\ IsNum(c.r) /\ Abs(c.r.v) >= min_correlation
    /\ IsNum(c.p) /\ c.p.v < PMax

\* r is not None and abs(r) >= min_correlation and p < 0.05 and n >= 20
\* (a comparison with NaN is False).
KeepPair(c) ==
    /\ c.r.tag # "None"
    /\ IsNum(c.r) /\ Abs(c.r.v) >= min_correlation
    /\ IsNum(c.p) /\ c.p.v < PMax
    /\ c.n >= MinDiscoverN

\* The loop over the pairs: the entries appended, in order.
CollectPairs(pairs, columns, st) ==
    LET appended(m1, m2) ==
            LET c == corr_with_p(columns[m1], columns[m2], "spearman", Scipy(st, m1, m2))
            IN  IF KeepPair(c)
                THEN <<[metric1 |-> m1, metric2 |-> m2, correlation |-> c.r.v,
                        p_value |-> c.p.v, sample_size |-> c.n,
                        is_hidden |-> is_hidden_correlation(m1, m2),
                        actionable |-> is_actionable_correlation(m1, m2)]>>
                ELSE <<>>
    IN  Flatten([i \in 1..Len(pairs) |-> appended(pairs[i][1], pairs[i][2])], 1, Len(pairs))

\* The sort key (is_hidden, |correlation|), compared as Python compares
\* tuples: a's key is strictly below b's.
KeyLt(a, b) ==
    \/ ~a.is_hidden /\ b.is_hidden
    \/ a.is_hidden = b.is_hidden /\ Abs(a.correlation) < Abs(b.correlation)

\* list.sort(key=..., reverse=True): descending and stable.
SortDesc(es) ==
    LET \* the entries that come before entry i: those of a greater key, and
        \* those of an equal key that were before it
        ahead(i) == {j \in 1..Len(es) :
                        \/ KeyLt(es[i], es[j])
                        \/ ~KeyLt(es[j], es[i]) /\ j < i}
    IN  [k \in 1..Len(es) |-> es[CHOOSE i \in 1..Len(es) : Cardinality(ahead(i)) = k - 1]]

\* correlations[:10]
TopSlice(es) == SubSeq(es, 1, Min(Len(es), TopN))

\* The joined table the correlations are computed on.
Combined(d, m) == MergeInner(ToDatetime(d), GroupByDateAgg(ToDatetime(m), AggSpec(m)))

AvailableMetrics(combined) == SelectSeq(all_metrics, LAMBDA c : c \in combined.cols)

\* The caller's tables after the call: lines 24-25 assign the converted
\* date column into the arguments themselves, meals first; a table with no
\* date column raises KeyError there.
ArgsAfterDiscover(d, m) ==
    IF "date" \notin m.cols THEN [daily |-> d, meals |-> m]
    ELSE IF "date" \notin d.cols THEN [daily |-> d, meals |-> ToDatetime(m)]
    ELSE [daily |-> ToDatetime(d), meals |-> ToDatetime(m)]

\* discover_hidden_correlations(daily, meals): [kind, exc, list].  The test
\* of line 27 comes after line 24 has read meals['date'], so it is never
\* true when reached.
discover_hidden_correlations(d, m, st) ==
    IF "date" \notin m.cols \/ "date" \notin d.cols
    THEN [kind |-> "raise", exc |-> "KeyError", list |-> <<>>]
    ELSE IF AggSpec(m).sum \cup AggSpec(m).mean = {}
    THEN [kind |-> "return", exc |-> "", list |-> <<>>]
    ELSE LET combined == Combined(d, m)
             available_metrics == AvailableMetrics(combined)
             columns == [c \in combined.cols |-> Column(combined, c)]
             found == CollectPairs(Combinations2(available_metrics), columns, st)
         IN  [kind |-> "return", exc |-> "", list |-> TopSlice(SortDesc(found))]

(***************************************************************************)
(* app/ml/causal.py                                                        *)
(*                                                                         *)
(* The fitted numbers (propensities, regressions, bootstrap draws) come    *)
(* from scikit-learn and numpy; what the call computes from them is an     *)
(* input of the model: num = [ate, lo, hi].  np.random, the RandomState    *)
(* of the process, is kept as its position in its stream of draws, counted *)
(* in blocks of one bootstrap's draws; the stream has RandomStates blocks. *)
(***************************************************************************)
MinRows == 30
RandomStates == 4

SeqToSet(q) == {q[i] : i \in 1..Len(q)}

\* dropna() over the treatment and outcome columns only.
DropNA_TreatOutcomeOnly(t, cs) ==
    SelectSeq(t.rows, LAMBDA r : NotNA(r[cs[1]]) /\ NotNA(r[cs[2]]))

\* dropna() that does not look at the outcome column cs[2].
DropNA_OutcomeIgnored(t, cs) ==
    SelectSeq(t.rows, LAMBDA r : \A i \in (1..Len(cs)) \ {2} : NotNA(r[cs[i]]))

\* df[cs].dropna(): the rows with no missing value in any column of cs
\* (listwise deletion), in order.
DropNA(t, cs) == SelectSeq(t.rows, LAMBDA r : \A i \in 1..Len(cs) : NotNA(r[cs[i]]))

\* The classes of T = use[treat_col].values.astype(int).
Classes(use, treat_col) == {use[i][treat_col][1] : i \in 1..Len(use)}

\* LogisticRegression(max_iter=1000).fit(X, T) raises ValueError when T
\* holds a single class ("This solver needs samples of at least 2 classes
\* in the data").
PropensityFitFails(use, treat_col) == Cardinality(Classes(use, treat_col)) < 2

\* The outcome model of one arm: a regression fitted on the arm's rows, or
\* the constant mean of Y when the arm is empty.
ArmModel(use, treat_col, arm) ==
    IF \E i \in 1..Len(use) : use[i][treat_col][1] = arm THEN "fitted" ELSE "mean_of_Y"

\* _bootstrap_ci(vals): np.random.randint(0, len(vals), (iters, len(vals)))
\* takes the resampling indices from the RandomState of the process, at its
\* position g, and leaves it one block further.  The percentiles are those
\* of the resampled means: num.lo and num.hi under the draws of block 0,
\* and g further out under the draws of block g.
bootstrap_ci(num, g) ==
    [ci |-> <<num.lo - g, num.hi + g>>, np_random |-> (g + 1) % RandomStates]

\* doubly_robust_ate(df, treat_col, outcome_col, confounders), called with
\* np.random at position g: [kind, exc, n, mu0, mu1, ate, ci], and
\* np_random, the position the call leaves np.random at.
doubly_robust_ate(t, treat_col, outcome_col, confounders, num, g) ==
    LET cs == <<treat_col, outcome_col>> \o confounders
        none == [kind |-> "None", exc |-> "", n |-> 0, mu0 |-> "", mu1 |-> "",
                 ate |-> 0, ci |-> <<0, 0>>, np_random |-> g]
    IN  IF ~(SeqToSet(cs) \subseteq t.cols)
        THEN [none EXCEPT !.kind = "raise", !.exc = "KeyError"]
        ELSE LET use == DropNA(t, cs)
             IN  IF Len(use) < MinRows THEN none
                 ELSE IF PropensityFitFails(use, treat_col)
                 THEN [none EXCEPT !.kind = "raise", !.exc = "ValueError"]
                 ELSE [kind |-> "estimate", exc |-> "", n |-> Len(use),
                       mu0 |-> ArmModel(use, treat_col, 0),
                       mu1 |-> ArmModel(use, treat_col, 1),
                       ate |-> num.ate, ci |-> bootstrap_ci(num, g).ci,
                       np_random |-> bootstrap_ci(num, g).np_random]

(***************************************************************************)
(* app/ml/causal.py, lines 5-10 and 20-33: the scores dr and what is       *)
(* computed from them.                                                     *)
(*                                                                         *)
(* A row of use is [T, Y, p, mu0, mu1]: its treatment, its outcome, and    *)
(* the values the three fitted models predict at its confounders.  Y, mu0  *)
(* and mu1 are whole numbers, p is in millionths, and a quotient is kept   *)
(* to the unit.  ate is [sum, n], the mean sum / n; the resample means     *)
(* are their sums, in units of 1 / n, and lo and hi are in units of        *)
(* 1 / (1000 n).                                                           *)
(***************************************************************************)
PUnit == 1000000
eps == 1
iters == 300
AlphaHalf == 25

\* T * (Y - mu1) / (p + eps), the score's term of a treated row.
TreatedTerm(r) == (r.T * (r.Y - r.mu1) * PUnit) \div (r.p + eps)

\* (1 - T) * (Y - mu0) / (1 - p + eps), the score's term of a control row.
ControlTerm(r) == ((1 - r.T) * (r.Y - r.mu0) * PUnit) \div (PUnit - r.p + eps)

\* The score without the difference of the two outcome predictions.
DrScore_ResidualOnly(r) == TreatedTerm(r) - ControlTerm(r)

\* dr = (T*(Y - mu1))/(p+eps) - ((1-T)*(Y - mu0))/(1-p+eps) + (mu1 - mu0)
DrScore(r) == TreatedTerm(r) - ControlTerm(r) + (r.mu1 - r.mu0)

\* np.random.randint(0, n, (iters, n)) at position g of the RandomState:
\* iters rows of n indices into vals, each one of the n positions.
Randint(g, n) ==
    [b \in 1..iters |->
        [j \in 1..n |-> 1 + (((b * 37 + j * 101 + ((b * j) % 17) * 13 + g * 53) % 211) % n)]]

\* vals[idx].mean(axis=1), as sums: one per row of idx.
Boots(vals, idx) ==
    [b \in 1..Len(idx) |-> SumSeq([j \in 1..Len(idx[b]) |-> vals[idx[b][j]]])]

\* The value at position k, counted from 0, of the values in descending
\* order.
OrderStat_FromTheTop(xs, k) ==
    CHOOSE v \in {xs[i] : i \in 1..Len(xs)} :
        /\ Cardinality({i \in 1..Len(xs) : xs[i] > v}) <= k
        /\ Cardinality({i \in 1..Len(xs) : xs[i] >= v}) > k

\* The value at position k, counted from 0, of the values in ascending order.
OrderStat(xs, k) ==
    CHOOSE v \in {xs[i] : i \in 1..Len(xs)} :
        /\ Cardinality({i \in 1..Len(xs) : xs[i] < v}) <= k
        /\ Cardinality({i \in 1..Len(xs) : xs[i] <= v}) > k

\* np.percentile(xs, q / 10), by linear interpolation between the two
\* order statistics around position (len(xs) - 1) * q / 1000; in
\* thousandths of the unit of xs.
percentile(xs, q) ==
    LET pos  == (Len(xs) - 1) * q
        k    == pos \div 1000
        frac == pos % 1000
        a    == OrderStat(xs, k)
    IN  IF frac = 0 THEN 1000 * a
        ELSE 1000 * a + frac * (OrderStat(xs, k + 1) - a)

\* _bootstrap_ci(vals, iters=300, alpha=0.05) at position g of np.random.
bootstrap_percentiles(vals, g) ==
    LET idx   == Randint(g, Len(vals))
        boots == Boots(vals, idx)
    IN  [idx |-> idx,
         lo  |-> percentile(boots, AlphaHalf),
         hi  |-> percentile(boots, 1000 - AlphaHalf)]

\* Lines 30-33 of doubly_robust_ate on the rows of use and their fitted
\* values, at position g of np.random.
DrEstimate(use, g) ==
    LET dr == [i \in 1..Len(use) |-> DrScore(use[i])]
        b  == bootstrap_percentiles(dr, g)
    IN  [dr |-> dr, ate |-> <<SumSeq(dr), Len(dr)>>, idx |-> b.idx,
         ci |-> <<b.lo, b.hi>>, n |-> Len(use)]

(***************************************************************************)
(* app/config.py, app/api/ingest.py, app/api/features.py,                  *)
(* app/ml/glycemic.py, app/api/insights.py                                 *)
(*                                                                         *)
(* sleep_hours is kept in tenths of an hour.  The tables of one session    *)
(* hold one row per date in sleep, activity and vitals.  The text fields   *)
(* of a card (title, intervention, success) are left out.                  *)
(***************************************************************************)
LOW_SLEEP_THRESHOLD == 60
MIN_SAMPLES == 30
DefaultMinRun == 3

INSIGHTS_MEAL_COLS == {"date", "meal_auc", "meal_peak", "late_meal", "post_meal_walk10"}
INSIGHTS_DAILY_COLS == {"date", "sleep_hours", "hrv", "rhr", "fg_fast_mgdl"}

\* df["date"] = pd.to_datetime(df["date"]).dt.date
ToDate(t) == [t EXCEPT !.date_dtype = "date"]

Dates(t) == {t.rows[i]["date"][1] : i \in 1..Len(t.rows)}

\* The cell of column c on a day, NaN when the table has no row that day.
CellOn(t, day, c) ==
    IF day \in Dates(t)
    THEN (CHOOSE r \in SeqToSet(t.rows) : r["date"] = <<day>>)[c]
    ELSE NA

\* left.merge(right, on="date", how="outer").sort_values("date"): one row
\* per date of either table, in date order.
MergeOuter(left, right) ==
    LET days == SortedSet(Dates(left) \cup Dates(right))
        both == (left.cols \cap right.cols) \ {"date"}
        lcols == left.cols \ both
        rcols == (right.cols \ both) \ {"date"}
    IN  [cols |-> lcols \cup rcols,
         date_dtype |-> left.date_dtype,
         rows |-> [k \in 1..Len(days) |->
                     [c \in lcols \cup rcols |->
                        IF c = "date" THEN <<days[k]>>
                        ELSE IF c \in lcols THEN CellOn(left, days[k], c)
                        ELSE CellOn(right, days[k], c)]]]

\* Series.interpolate(limit_direction="both"): a gap is filled linearly by
\* position between its neighbours; a gap at either end takes the nearest
\* observed value; a column with no observed value stays missing.
InterpolateColumn(col) ==
    [i \in 1..Len(col) |->
        IF NotNA(col[i]) THEN col[i]
        ELSE LET before == {j \in 1..(i - 1) : NotNA(col[j])}
                 after == {j \in (i + 1)..Len(col) : NotNA(col[j])}
                 a == CHOOSE j \in before : \A k \in before : k <= j
                 b == CHOOSE j \in after : \A k \in after : j <= k
             IN  IF before = {} /\ after = {} THEN NA
                 ELSE IF before = {} THEN col[b]
                 ELSE IF after = {} THEN col[a]
                 ELSE <<col[a][1] + ((col[b][1] - col[a][1]) * (i - a)) \div (b - a)>>]

Interpolate(t) ==
    LET filled == [c \in t.cols \ {"date"} |-> InterpolateColumn(Column(t, c))]
    IN  [t EXCEPT !.rows = [i \in 1..Len(t.rows) |->
            [c \in t.cols |-> IF c = "date" THEN t.rows[i][c] ELSE filled[c][i]]]]

\* ingest(): the session stored for the four files read, or KeyError when
\* one of them has no date column.
ingest(up) ==
    IF \E f \in {"meals", "sleep", "activity", "vitals"} : "date" \notin up[f].cols
    THEN [kind |-> "raise", exc |-> "KeyError"]
    ELSE LET ml == ToDate(up.meals)
             sl == ToDate(up.sleep)
             ac == ToDate(up.activity)
             vt == ToDate(up.vitals)
         IN  [kind |-> "stored",
              session |-> [meals |-> ml, sleep |-> sl, activity |-> ac, vitals |-> vt,
                           daily |-> Interpolate(MergeOuter(MergeOuter(sl, ac), vt))]]

\* add_meal_features(meals): a copy, with carbs_pct (in thousandths) when
\* the three macro columns exist.
add_meal_features(m) ==
    IF ~({"carbs_g", "protein_g", "fat_g"} \subseteq m.cols) THEN m
    ELSE [m EXCEPT
            !.cols = m.cols \cup {"carbs_pct"},
            !.rows = [i \in 1..Len(m.rows) |->
                LET r == m.rows[i]
                    known == NotNA(r["carbs_g"]) /\ NotNA(r["protein_g"]) /\ NotNA(r["fat_g"])
                    total == r["carbs_g"][1] + r["protein_g"][1] + r["fat_g"][1]
                IN  [c \in m.cols \cup {"carbs_pct"} |->
                        IF c # "carbs_pct" THEN r[c]
                        ELSE IF ~known THEN NA
                        ELSE IF total = 0 THEN <<0>>
                        ELSE <<(1000 * r["carbs_g"][1]) \div total>>]]]

\* d["sleep_prev"] = d["sleep_hours"].shift(1); d_prev = d[["date", "sleep_prev"]]
SleepPrev(dl) ==
    [cols |-> {"date", "sleep_prev"}, date_dtype |-> "datetime64",
     rows |-> [i \in 1..Len(dl.rows) |->
                 [c \in {"date", "sleep_prev"} |->
                    IF c = "date" THEN dl.rows[i]["date"]
                    ELSE IF i = 1 THEN NA ELSE dl.rows[i - 1]["sleep_hours"]]]]

\* meals.merge(d_prev, on="date", how="left"): every meal row in order, once
\* per row of d_prev on its date, or once with sleep_prev missing.
MergeLeftRows(lrows, right, cols) ==
    LET joined(l) ==
            LET match == SelectSeq(right.rows, LAMBDA r : r["date"] = l["date"])
                row(rt) == [c \in cols |-> IF c \in DOMAIN l THEN l[c] ELSE rt[c]]
                none == [c \in cols |-> IF c \in DOMAIN l THEN l[c] ELSE NA]
            IN  IF match = <<>> THEN <<none>> ELSE [k \in 1..Len(match) |-> row(match[k])]
    IN  Flatten([i \in 1..Len(lrows) |-> joined(lrows[i])], 1, Len(lrows))

\* (m["sleep_prev"] < LOW_SLEEP_THRESHOLD).astype(int): a comparison with
\* NaN is False, so 0.
SleepLow(sp) == IF NotNA(sp) /\ sp[1] < LOW_SLEEP_THRESHOLD THEN <<1>> ELSE <<0>>

\* The table m of lines 158-164.
MealFrame(dl, ml) ==
    LET cols == ml.cols \cup {"sleep_prev", "sleep_low"}
        joined == MergeLeftRows(ml.rows, SleepPrev(dl), ml.cols \cup {"sleep_prev"})
    IN  [cols |-> cols, date_dtype |-> "datetime64",
         rows |-> [i \in 1..Len(joined) |->
                     [c \in cols |-> IF c = "sleep_low" THEN SleepLow(joined[i]["sleep_prev"])
                                     ELSE joined[i][c]]]]

\* confs of lines 167-169.
SleepConfounders(m) ==
    LET confs == SelectSeq(<<"carbs_pct", "fiber_g", "late_meal", "post_meal_walk10">>,
                           LAMBDA c : c \in m.cols)
    IN  IF Len(confs) < 2 THEN <<"late_meal", "post_meal_walk10">> ELSE confs

WalkConfounders == <<"carbs_pct", "fiber_g", "late_meal", "sleep_low">>

\* A card: its id, type, n and confidence (n = 0, confidence = "" for a
\* card that has none), the estimate its effect is computed from (ate, or
\* r) and, for an anomaly, the run's length in days.
Card(id, type, n, confidence, effect, run_days) ==
    [id |-> id, type |-> type, n |-> n, confidence |-> confidence,
     effect |-> effect, run_days |-> run_days]

SleepConfidence(n) == IF n >= 100 THEN "high" ELSE IF n >= 50 THEN "moderate" ELSE "low"
WalkConfidence(n) == IF n >= 50 THEN "moderate" ELSE "low"

\* data_span_days
DataSpanDays(dl) ==
    IF "date" \in dl.cols /\ Len(dl.rows) > 0
    THEN LET ds == Dates(dl)
         IN  (CHOOSE a \in ds : \A b \in ds : b <= a) - (CHOOSE a \in ds : \A b \in ds : a <= b) + 1
    ELSE 0

\* The anomaly card for the last run of the fasting glucose series, if any.
AnomalyCards(dl) ==
    LET found == anomaly_runs(Column(dl, "date"), Column(dl, "fg_fast_mgdl"), K10, DefaultMinRun)
        last == found[Len(found)]
    IN  IF found = <<>> THEN <<>>
        ELSE <<Card("fg_anomaly", "anomaly", 0, "", None, last.end_date[1] - last.start_date[1] + 1)>>

CountType(cards, type) == Len(SelectSeq(cards, LAMBDA c : c.type = type))

Response(cards, dl, ml, status, insufficient, confidence) ==
    [kind |-> "response", exc |-> "", cards |-> cards,
     total_data_points |-> Len(dl.rows) + Len(ml.rows),
     data_span_days |-> DataSpanDays(dl),
     processing_status |-> status,
     correlations_discovered |-> CountType(cards, "correlation"),
     causal_effects_found |-> CountType(cards, "causal_uplift"),
     anomalies_detected |-> CountType(cards, "anomaly"),
     model_confidence |-> confidence,
     insufficient_data |-> insufficient]

Raised(exc) ==
    [kind |-> "raise", exc |-> exc, cards |-> <<>>, total_data_points |-> 0,
     data_span_days |-> 0, processing_status |-> "", correlations_discovered |-> 0,
     causal_effects_found |-> 0, anomalies_detected |-> 0, model_confidence |-> "",
     insufficient_data |-> FALSE]

EmptyTable == [cols |-> {}, date_dtype |-> "date", rows |-> <<>>]

\* The response of lines 63-74.
NoDataResponse == Response(<<>>, EmptyTable, EmptyTable, "no_data", TRUE, "no_data")

\* Lines 98-155: the requirement card and the anomaly card alone.
InsufficientResponse(dl, ml) ==
    LET need == IF INSIGHTS_MEAL_COLS \subseteq ml.cols THEN <<>>
                ELSE <<Card("data_requirement", "data_requirement", 0, "", None, 0)>>
        anom == IF "date" \in dl.cols /\ "fg_fast_mgdl" \in dl.cols
                THEN AnomalyCards(dl) ELSE <<>>
    IN  Response(need \o anom, dl, ml, "completed", TRUE, "low")

\* Lines 157-327: an exception of either estimator call leaves the handler.
\* The second estimate starts from where the first left np.random.
FullInsights(dl, ml, orc, g) ==
    LET m == MealFrame(dl, ml)
        res == doubly_robust_ate(m, "sleep_low", "meal_auc", SleepConfounders(m), orc.num1, g)
        res2 == doubly_robust_ate(m, "post_meal_walk10", "meal_auc", WalkConfounders, orc.num2,
                                  res.np_random)
        c == corr_with_p(Column(m, "late_meal"), Column(m, "meal_peak"), "spearman", orc.sp)
        sleep_card == IF res.kind = "estimate"
                      THEN <<Card("sleep_auc", "causal_uplift", res.n, SleepConfidence(res.n), Num(res.ate), 0)>>
                      ELSE <<>>
        walk_card == IF res2.kind = "estimate"
                     THEN <<Card("walk_auc", "causal_uplift", res2.n, WalkConfidence(res2.n), Num(res2.ate), 0)>>
                     ELSE <<>>
        corr_card == IF c.r.tag # "None" /\ c.n >= MIN_SAMPLES
                     THEN <<Card("late_peak", "correlation", c.n, "", c.r, 0)>>
                     ELSE <<>>
        span == DataSpanDays(dl)
    IN  [out |-> IF res.kind = "raise" THEN Raised(res.exc)
                 ELSE IF res2.kind = "raise" THEN Raised(res2.exc)
                 ELSE Response(sleep_card \o walk_card \o corr_card \o AnomalyCards(dl), dl, ml,
                               "completed", FALSE,
                               IF span >= 30 THEN "high"
                               ELSE IF span >= 14 THEN "moderate" ELSE "low"),
         np_random |-> IF res.kind = "raise" THEN res.np_random ELSE res2.np_random]

\* insights(session_id), called with np.random at position g: [out,
\* np_random], what the request returns or raises and the position it
\* leaves np.random at.
insights(store, sid, orc, g) ==
    IF sid \notin DOMAIN store THEN [out |-> NoDataResponse, np_random |-> g]
    ELSE LET dl == store[sid].daily
             ml == add_meal_features(store[sid].meals)
         IN  IF ~(INSIGHTS_MEAL_COLS \subseteq ml.cols) \/ ~(INSIGHTS_DAILY_COLS \subseteq dl.cols)
             THEN [out |-> InsufficientResponse(dl, ml), np_random |-> g]
             ELSE FullInsights(dl, ml, orc, g)

(***************************************************************************)
(* app/ml/correlations.py: find_lag_correlations                           *)
(***************************************************************************)
\* abs(r) >= 0.3, p < 0.05 and n >= 15.
MinLagR == 300
LagPMax == 50
MinLagN == 15

\* The (predictor, outcome) pairs tested, in order.
relationships ==
    << <<"sleep_hours", "fg_fast_mgdl">>,
       <<"hrv", "fg_fast_mgdl">>,
       <<"workout_min", "sleep_hours">>,
       <<"steps", "hrv">> >>

\* daily.sort_values('date'): the rows in date order, for a table with one
\* row per date.
SortByDate(t) ==
    LET days == SortedSet(Dates(t))
    IN  [t EXCEPT !.rows = [k \in 1..Len(days) |->
                              CHOOSE r \in SeqToSet(t.rows) : r["date"] = <<days[k]>>]]

\* s.shift(lag): each row gets the value of the row lag positions before
\* it, and the first lag rows a missing value.
Shift(col, lag) == [i \in 1..Len(col) |-> IF i <= lag THEN NA ELSE col[i - lag]]

\* What scipy returns for the lagged predictor against the outcome; st
\* names one filling from the palettes of results.
LagScipy(st, predictor, outcome, lag) ==
    LET k == 4 * (Len(all_metrics) * MetricIndex(predictor) + MetricIndex(outcome)) + lag
        r(o) == RPalette[((st.a * k + st.b + o) % Len(RPalette)) + 1]
        p(o) == PPalette[((k + st.b + o) % Len(PPalette)) + 1]
        rp(o) == IF r(o).tag = "nan" THEN [r |-> r(o), p |-> r(o)] ELSE [r |-> r(o), p |-> p(o)]
    IN  [pearson |-> rp(1), spearman |-> rp(0)]

\* The test that keeps a lag, without its sample-size part.
KeepLag_AnyN(c) ==
    /\ c.r.tag # "None"
    /\ IsNum(c.r) /\ Abs(c.r.v) >= MinLagR
    /\ IsNum(c.p) /\ c.p.v < LagPMax

\* r is not None and abs(r) >= 0.3 and p < 0.05 and n >= 15 (a comparison
\* with NaN is False).
KeepLag(c) ==
    /\ c.r.tag # "None"
    /\ IsNum(c.r) /\ Abs(c.r.v) >= MinLagR
    /\ IsNum(c.p) /\ c.p.v < LagPMax
    /\ c.n >= MinLagN

\* The loop over the lags of one relationship: the entries appended.
LagEntries(t, predictor, outcome, mx, st) ==
    LET daily_sorted == SortByDate(t)
        appended(lag) ==
            LET c == corr_with_p(Shift(Column(daily_sorted, predictor), lag),
                                 Column(daily_sorted, outcome), "spearman",
                                 LagScipy(st, predictor, outcome, lag))
            IN  IF KeepLag(c)
                THEN <<[predictor |-> predictor, outcome |-> outcome, lag_days |-> lag,
                        correlation |-> c.r.v, p_value |-> c.p.v, sample_size |-> c.n]>>
                ELSE <<>>
    IN  Flatten([lag \in 1..mx |-> appended(lag)], 1, mx)

\* sorted(lag_correlations, key=lambda x: abs(x['correlation']),
\* reverse=True): descending and stable.
SortByAbsDesc(es) ==
    LET ahead(i) == {j \in 1..Len(es) :
                        \/ Abs(es[j].correlation) > Abs(es[i].correlation)
                        \/ Abs(es[j].correlation) = Abs(es[i].correlation) /\ j < i}
    IN  [k \in 1..Len(es) |-> es[CHOOSE i \in 1..Len(es) : Cardinality(ahead(i)) = k - 1]]

\* find_lag_correlations(daily, max_lag): [kind, exc, list].  A
\* relationship with a column missing is skipped; the first one tested
\* sorts by date, which raises KeyError on a table with no date column.
find_lag_correlations(t, mx, st) ==
    LET tested == SelectSeq(relationships, LAMBDA h : h[1] \in t.cols /\ h[2] \in t.cols)
    IN  IF tested # <<>> /\ "date" \notin t.cols
        THEN [kind |-> "raise", exc |-> "KeyError", list |-> <<>>]
        ELSE [kind |-> "return", exc |-> "",
              list |-> SortByAbsDesc(
                  Flatten([h \in 1..Len(tested) |->
                              LagEntries(t, tested[h][1], tested[h][2], mx, st)],
                          1, Len(tested)))]


(***************************************************************************)
(* app/api/insights.py: the other read endpoints.  A response keeps what   *)
(* tells it from the no-data response of its endpoint; the numbers of the  *)
(* scores and of the predictors are left out.                              *)
(***************************************************************************)
DefaultMaxLag == 3

\* df.get(c, pd.Series()).fillna(0).tolist()
FillZero(t, c) ==
    IF c \notin t.cols THEN <<>>
    ELSE [i \in 1..Len(t.rows) |-> IF IsNA(t.rows[i][c]) THEN 0 ELSE t.rows[i][c][1]]

\* The response of timeline's except KeyError branch.
TimelineEmpty ==
    [kind |-> "response", dates |-> <<>>, sleep_hours |-> <<>>, hrv |-> <<>>, rhr |-> <<>>,
     fg_fast_mgdl |-> <<>>]

\* timeline(session_id) that lets the KeyError of an unknown session out.
timeline_Uncaught(store, sid) ==
    IF sid \notin DOMAIN store THEN [TimelineEmpty EXCEPT !.kind = "raise"]
    ELSE [TimelineEmpty EXCEPT !.dates = FillZero(store[sid].daily, "date")]

\* timeline(session_id): session_data[session_id] and df["date"] raise
\* KeyError for an unknown session and for a table without dates.
timeline(store, sid) ==
    IF sid \notin DOMAIN store THEN TimelineEmpty
    ELSE LET t == store[sid].daily
         IN  IF "date" \notin t.cols THEN TimelineEmpty
             ELSE [kind |-> "response",
                   dates |-> [i \in 1..Len(t.rows) |-> Text(t.rows[i]["date"][1])],
                   sleep_hours |-> FillZero(t, "sleep_hours"), hrv |-> FillZero(t, "hrv"),
                   rhr |-> FillZero(t, "rhr"), fg_fast_mgdl |-> FillZero(t, "fg_fast_mgdl")]

\* meals(session_id): the keys of the returned records and their number.
meals_records(store, sid) ==
    IF sid \notin DOMAIN store THEN [kind |-> "response", cols |-> {}, meals |-> 0]
    ELSE LET m    == add_meal_features(store[sid].meals)
             cols == m.cols \cap {"date", "time", "carbs_g", "protein_g", "fat_g", "fiber_g",
                                  "carbs_pct", "late_meal", "post_meal_walk10", "meal_auc",
                                  "meal_peak", "ttpeak_min"}
         IN  [kind |-> "response", cols |-> cols,
              meals |-> IF cols = {} THEN 0 ELSE Len(m.rows)]

\* calculate_metabolic_health_score: the components that get a score.
ScoreComponents(dl, ml) ==
    LET has(c) == c \in dl.cols /\ \E i \in 1..Len(dl.rows) : NotNA(dl.rows[i][c])
        parts == (IF has("fg_fast_mgdl") THEN {"glucose_control"} ELSE {})
                 \cup (IF has("sleep_hours") THEN {"sleep_quality"} ELSE {})
                 \cup (IF has("hrv") THEN {"recovery"} ELSE {})
                 \cup (IF Len(ml.rows) > 0 THEN {"nutrition"} ELSE {})
                 \cup (IF has("steps") THEN {"activity"} ELSE {})
    IN  IF Len(dl.rows) = 0 THEN {"error"}
        ELSE IF parts = {} THEN {} ELSE parts \cup {"overall"}

\* health_score(session_id)
health_score(store, sid) ==
    IF sid \notin DOMAIN store
    THEN [kind |-> "response", error |-> "No session data", scores |-> {}]
    ELSE [kind |-> "response", error |-> "",
          scores |-> ScoreComponents(store[sid].daily, add_meal_features(store[sid].meals))]

\* The two tables after lines 13-14 of predict_glucose_response.
ArgsAfterPredict(d, m) ==
    IF "date" \notin m.cols THEN [daily |-> d, meals |-> m]
    ELSE IF "date" \notin d.cols THEN [daily |-> d, meals |-> ToDatetime(m)]
    ELSE [daily |-> ToDatetime(d), meals |-> ToDatetime(m)]

\* predictions(session_id): [out, store].  load_daily hands the stored
\* daily table itself to predict_glucose_response, which converts its date
\* column in place; the meals table it gets is add_meal_features' copy.
\* The three predictors that follow give the body, or an exception of
\* theirs: done tells which.
predictions(store, sid, done) ==
    IF sid \notin DOMAIN store
    THEN [out |-> [kind |-> "response", error |-> "No session data"], store |-> store]
    ELSE LET dl == store[sid].daily
             ml == add_meal_features(store[sid].meals)
             after == ArgsAfterPredict(dl, ml).daily
         IN  [out |-> IF "date" \notin ml.cols \/ "date" \notin dl.cols
                      THEN [kind |-> "raise", error |-> "KeyError"]
                      ELSE [kind |-> done, error |-> ""],
              store |-> [store EXCEPT ![sid].daily = after]]

\* What correlations(session_id) leaves in the store: the stored daily
\* table itself goes to discover_hidden_correlations, which converts its
\* date column in place.
correlations_stored(store, sid) ==
    IF sid \notin DOMAIN store THEN store
    ELSE [store EXCEPT ![sid].daily =
             ArgsAfterDiscover(store[sid].daily, add_meal_features(store[sid].meals)).daily]

\* What correlations(session_id) returns or raises.
correlations(store, sid, st) ==
    IF sid \notin DOMAIN store
    THEN [kind |-> "response", error |-> "No session data",
          hidden_correlations |-> <<>>, lag_correlations |-> <<>>]
    ELSE LET dl == store[sid].daily
             ml == add_meal_features(store[sid].meals)
             hidden == discover_hidden_correlations(dl, ml, st)
             lagged == find_lag_correlations(ArgsAfterDiscover(dl, ml).daily, DefaultMaxLag, st)
             raised(e) == [kind |-> "raise", error |-> e, hidden_correlations |-> <<>>,
                           lag_correlations |-> <<>>]
         IN  IF hidden.kind = "raise" THEN raised(hidden.exc)
             ELSE IF lagged.kind = "raise" THEN raised(lagged.exc)
             ELSE [kind |-> "response", error |-> "",
                   hidden_correlations |-> hidden.list,
                   lag_correlations |-> lagged.list]

(***************************************************************************)
(* Inputs of the anomaly detector.                                         *)
(***************************************************************************)
MaxTail == 5
MaxMinRun == 3
MaxShiftLen == 20
MaxConstLen == 16
MaxConstNA == 2

SeqsUpTo(S, n) == UNION {[1..k -> S] : k \in 0..n}

\* Seven warm-up points, flat (MAD 0) or noisy (median 10, MAD 2).
FlatPrefix == [i \in 1..7 |-> <<10>>]
NoisyPrefix == << <<8>>, <<10>>, <<12>>, <<8>>, <<10>>, <<12>>, <<10>> >>

\* A warm-up followed by every tail of baseline, raised and missing points.
GeneralSeries ==
    {FlatPrefix \o t : t \in SeqsUpTo({<<10>>, <<20>>, NA}, MaxTail)}
    \cup {NoisyPrefix \o t : t \in SeqsUpTo({<<10>>, <<17>>, <<18>>}, MaxTail)}

\* A constant series of n points with a step of d over the 5 points p..p+4.
StepSeries(n, p, d) == [i \in 1..n |-> IF i \in p..(p + 4) THEN <<10 + d>> ELSE <<10>>]
ShiftSeries ==
    UNION {{StepSeries(n, p, d) : p \in 1..(n - 4), d \in {1, 10, -3}} : n \in 5..MaxShiftLen}

\* A series whose observed values are all 10, with up to MaxConstNA missing.
ConstSeries ==
    {[i \in 1..n |-> IF i \in S THEN NA ELSE <<10>>] :
        n \in 0..MaxConstLen, S \in {T \in SUBSET (1..MaxConstLen) : Cardinality(T) <= MaxConstNA}}

\* The variables of the other components, when a specification leaves them
\* out.
IdleAnom == dates = <<>> /\ series = <<>> /\ min_run = 0 /\ runs = <<>>
IdleCorr == x = <<>> /\ y = <<>> /\ method = "" /\ corr_ret = <<>>
IdleDisc == daily = <<>> /\ meals = <<>> /\ stat = <<>> /\ disc_ret = <<>>
IdleAte == df = <<>> /\ roles = <<>> /\ ate_ret = <<>>
IdleSvc == session_data = <<>> /\ resp = <<>>
IdleLag == max_lag = 0 /\ lag_ret = <<>>
IdleConc == calls = <<>>
IdleDr == fit = <<>> /\ dr_est = <<>>
IdleRate == rate_limits = <<>> /\ clock = 0 /\ rate_log = <<>>

\* The dates of n points in date order, one point a day: consecutive days,
\* or with no point for the two days after the 8th point.
DateAxes(n) == {[i \in 1..n |-> i], [i \in 1..n |-> IF i <= 8 THEN i ELSE i + 2]}

AnomalyInputs ==
    {[series |-> s, min_run |-> m] : s \in GeneralSeries, m \in 1..MaxMinRun}
    \cup {[series |-> s, min_run |-> 3] : s \in ShiftSeries \cup ConstSeries}

InitAnom ==
    /\ pc = "input"
    /\ \E inp \in AnomalyInputs :
        /\ series = inp.series
        /\ min_run = inp.min_run
        /\ dates \in DateAxes(Len(inp.series))
    /\ runs = <<>>
    /\ IdleCorr /\ IdleDisc /\ IdleAte /\ IdleSvc /\ IdleLag /\ IdleConc
    /\ np_random = 0
    /\ IdleDr /\ IdleRate

\* runs = anomaly_runs(dates, series) with the default k.
CallAnomalyRuns ==
    /\ pc = "input"
    /\ runs' = anomaly_runs(dates, series, K10, min_run)
    /\ pc' = "returned"
    /\ UNCHANGED <<dates, series, min_run, corrVars, discVars, ateVars, svcVars, lagVars, np_random, concVars,
                   drVars, rateVars>>

NextAnom == CallAnomalyRuns

SpecAnom == InitAnom /\ [][NextAnom]_vars

(***************************************************************************)
(* Inputs of corr_with_p.                                                  *)
(***************************************************************************)
MaxCorrLen == 16
MaxCorrNA == 3

\* n cells, the first k of them missing (head) or the last k (tail).
CellsNA(n, k, side) ==
    [i \in 1..n |-> IF (side = "head" /\ i <= k) \/ (side = "tail" /\ i > n - k)
                    THEN NA ELSE <<i>>]

CorrInputs ==
    {[x |-> CellsNA(n, kx, "head"), y |-> CellsNA(n, ky, side), method |-> m] :
        n \in 0..MaxCorrLen, kx \in 0..MaxCorrNA, ky \in 0..MaxCorrNA,
        side \in {"head", "tail"}, m \in {"pearson", "spearman"}}

RP(r, p) == [r |-> r, p |-> p]
ScipyResults == {RP(Num(-900), Num(1)), RP(Num(300), Num(49)), RP(Num(0), Num(1000)), RP(NaN, NaN)}
CorrOracle ==
    {[pearson |-> a, spearman |-> b, text |-> t] :
        a \in ScipyResults, b \in ScipyResults, t \in {"ranked", "TypeError"}}

InitCorr ==
    /\ pc = "input"
    /\ \E inp \in CorrInputs : x = inp.x /\ y = inp.y /\ method = inp.method
    /\ corr_ret = <<>>
    /\ IdleAnom /\ IdleDisc /\ IdleAte /\ IdleSvc /\ IdleLag /\ IdleConc
    /\ np_random = 0
    /\ IdleDr /\ IdleRate

\* corr_ret = corr_with_p(x, y, method)
CallCorrWithP ==
    /\ pc = "input"
    /\ \E sp \in CorrOracle : corr_ret' = corr_with_p(x, y, method, sp)
    /\ pc' = "returned"
    /\ UNCHANGED <<x, y, method, anomVars, discVars, ateVars, svcVars, lagVars, np_random, concVars,
                   drVars, rateVars>>

NextCorr == CallCorrWithP

SpecCorr == InitCorr /\ [][NextCorr]_vars

(***************************************************************************)
(* Malformed inputs of corr_with_p: two series of different lengths, and   *)
(* text where numbers are expected.                                        *)
(***************************************************************************)
MinBadLen == 13
MaxBadLen == 17
MaxBadNA == 3

\* n cells of text, or n numbers with text in the first cell.
TextCells(n, all) == [i \in 1..n |-> IF all \/ i = 1 THEN Text(i) ELSE <<i>>]

MalformedInputs ==
    {[x |-> CellsNA(nx, kx, "tail"), y |-> CellsNA(ny, ky, "tail"), method |-> m] :
        nx \in MinBadLen..MaxBadLen, ny \in MinBadLen..MaxBadLen,
        kx \in 0..MaxBadNA, ky \in 0..MaxBadNA, m \in {"pearson", "spearman"}}
    \cup
    {[x |-> TextCells(n, all), y |-> CellsNA(n, ky, "tail"), method |-> m] :
        n \in MinBadLen..MaxBadLen, all \in BOOLEAN, ky \in 0..MaxBadNA,
        m \in {"pearson", "spearman"}}

InitMalformed ==
    /\ pc = "input"
    /\ \E inp \in MalformedInputs :
        /\ Len(inp.x) # Len(inp.y) \/ \E i \in 1..Len(inp.x) : IsText(inp.x[i])
        /\ x = inp.x /\ y = inp.y /\ method = inp.method
    /\ corr_ret = <<>>
    /\ IdleAnom /\ IdleDisc /\ IdleAte /\ IdleSvc /\ IdleLag /\ IdleConc
    /\ np_random = 0
    /\ IdleDr /\ IdleRate

SpecMalformed == InitMalformed /\ [][NextCorr]_vars

(***************************************************************************)
(* Inputs of discover_hidden_correlations.                                 *)
(***************************************************************************)
MaxDays == 21
MaxDailyNA == 1
MaxMealNADays == 1
MaxSeed == 6

DailyColSets ==
    {{"date", "sleep_hours", "hrv", "rhr", "fg_fast_mgdl", "steps", "workout_min"},
     {"date", "sleep_hours", "hrv"},
     {"date", "sleep_hours", "carbs_g"},
     {"sleep_hours", "hrv"}}

MealColSets ==
    {{"date", "carbs_g", "protein_g", "fat_g", "fiber_g", "late_meal",
      "post_meal_walk10", "meal_auc", "meal_peak"},
     {"date", "carbs_g", "meal_auc"},
     {"date", "time"},
     {"carbs_g", "meal_auc"}}

\* One row per day 1..nd; hrv is missing on the first na days.
DailyTable(nd, cols, na) ==
    [cols |-> cols, date_dtype |-> "date",
     rows |-> [d \in 1..nd |->
                 [c \in cols |-> IF c = "date" THEN <<d>>
                                 ELSE IF c = "hrv" /\ d <= na THEN NA
                                 ELSE <<1>>]]]

\* per meals on each day 1..nd; on the first na days every meal misses
\* carbs_g and meal_auc.
MealsTable(nd, per, cols, na) ==
    [cols |-> cols, date_dtype |-> "date",
     rows |-> [i \in 1..(nd * per) |->
                 LET d == ((i - 1) \div per) + 1
                 IN  [c \in cols |-> IF c = "date" THEN <<d>>
                                     ELSE IF c \in {"carbs_g", "meal_auc"} /\ d <= na THEN NA
                                     ELSE <<1>>]]]

\* The tables with a date column and aggregated meal columns, and those
\* on which the call ends early.
DiscoverTables ==
    {[daily |-> DailyTable(nd, dc, dna), meals |-> MealsTable(nd - short, per, mc, mna)] :
        nd \in MinDiscoverN..MaxDays, dna \in 0..MaxDailyNA, mna \in 0..MaxMealNADays,
        short \in 0..1, per \in 1..2,
        dc \in {c \in DailyColSets : "date" \in c},
        mc \in {c \in MealColSets : "date" \in c /\ "carbs_g" \in c}}
    \cup
    {[daily |-> DailyTable(MinDiscoverN, dc, 0), meals |-> MealsTable(MinDiscoverN, 1, mc, 0)] :
        dc \in DailyColSets, mc \in MealColSets}

InitDisc ==
    /\ pc = "input"
    /\ \E t \in DiscoverTables : daily = t.daily /\ meals = t.meals
    /\ \E b \in 0..MaxSeed : stat = [a |-> 2 * (b % 2) + 1, b |-> b]
    /\ disc_ret = <<>>
    /\ IdleAnom /\ IdleCorr /\ IdleAte /\ IdleSvc /\ IdleLag /\ IdleConc
    /\ np_random = 0
    /\ IdleDr /\ IdleRate

\* disc_ret = discover_hidden_correlations(daily, meals); the call converts
\* the date columns of the caller's tables in place.
CallDiscover ==
    /\ pc = "input"
    /\ disc_ret' = discover_hidden_correlations(daily, meals, stat)
    /\ daily' = ArgsAfterDiscover(daily, meals).daily
    /\ meals' = ArgsAfterDiscover(daily, meals).meals
    /\ pc' = "returned"
    /\ UNCHANGED <<stat, anomVars, corrVars, ateVars, svcVars, lagVars, np_random, concVars,
                   drVars, rateVars>>

NextDisc == CallDiscover

SpecDisc == InitDisc /\ [][NextDisc]_vars

(***************************************************************************)
(* Inputs of find_lag_correlations.                                        *)
(***************************************************************************)
MinLagDays == 14
MaxLagDays == 19
MaxLagArg == 3

LagColSets ==
    {{"date", "sleep_hours", "hrv", "rhr", "fg_fast_mgdl", "steps", "workout_min"},
     {"date", "sleep_hours", "fg_fast_mgdl"},
     {"date", "steps", "hrv"},
     {"date", "rhr"},
     {"sleep_hours", "fg_fast_mgdl"},
     {"rhr", "steps"}}

\* The calendar days a table has a row for: every day 1..nd, or all but
\* day 4, or all but days 4, 9 and 10.
LagDaySets(nd) == {1..nd, (1..nd) \ {4}, (1..nd) \ {4, 9, 10}}

\* One row per day of days, stored in date order or in reverse; a cell
\* holds its day number, so a value names the day it was observed on; hrv
\* is missing on day 1.
LagTable(days, cols, order) ==
    LET ds == SortedSet(days)
        n == Len(ds)
    IN  [cols |-> cols, date_dtype |-> "date",
         rows |-> [k \in 1..n |->
                     LET d == IF order = "asc" THEN ds[k] ELSE ds[n + 1 - k]
                     IN  [c \in cols |-> IF c = "hrv" /\ d = 1 THEN NA ELSE <<d>>]]]

LagTables ==
    {LagTable(days, cols, order) :
        days \in UNION {LagDaySets(nd) : nd \in MinLagDays..MaxLagDays},
        cols \in LagColSets, order \in {"asc", "desc"}}

InitLag ==
    /\ pc = "input"
    /\ daily \in LagTables
    /\ max_lag \in 0..MaxLagArg
    /\ \E b \in 0..MaxSeed : stat = [a |-> 2 * (b % 2) + 1, b |-> b]
    /\ meals = <<>> /\ disc_ret = <<>> /\ lag_ret = <<>>
    /\ IdleAnom /\ IdleCorr /\ IdleAte /\ IdleSvc /\ IdleConc
    /\ np_random = 0
    /\ IdleDr /\ IdleRate

\* lag_ret = find_lag_correlations(daily, max_lag); the call works on a
\* sorted copy of the table.
CallFindLagCorrelations ==
    /\ pc = "input"
    /\ lag_ret' = find_lag_correlations(daily, max_lag, stat)
    /\ pc' = "returned"
    /\ UNCHANGED <<max_lag, anomVars, corrVars, discVars, ateVars, svcVars, np_random, concVars,
                   drVars, rateVars>>

NextLag == CallFindLagCorrelations

SpecLag == InitLag /\ [][NextLag]_vars

(***************************************************************************)
(* Inputs of doubly_robust_ate.                                            *)
(***************************************************************************)
MaxRows == 32
MaxIncomplete == 4

AteCols == {"T", "Y", "X1", "X2", "other"}

\* n1 treated and n0 control rows with every role present, then k rows
\* that miss T, Y, X1 or X2 in turn; "other", which has no role, is missing
\* on every second row.
AteTable(n1, n0, k) ==
    [cols |-> AteCols,
     rows |-> [i \in 1..(n1 + n0 + k) |->
        LET j == i - (n1 + n0)
            hole == IF j < 1 THEN "" ELSE <<"T", "Y", "X1", "X2">>[((j - 1) % 4) + 1]
        IN  [c \in AteCols |->
                IF c = hole \/ (c = "other" /\ i % 2 = 0) THEN NA
                ELSE IF c = "T" THEN (IF i <= n1 THEN <<1>> ELSE <<0>>)
                ELSE <<i>>]]]

AteRoles ==
    {[treat_col |-> "T", outcome_col |-> "Y", confounders |-> cf] :
        cf \in {<<"X1", "X2">>, <<"X1">>, <<"X1", "absent">>}}

\* What the numeric part of the call computes: [ate, lo, hi].
NumOracle == {[ate |-> -12, lo |-> -20, hi |-> -3], [ate |-> 5, lo |-> -1, hi |-> 9]}

InitAte ==
    /\ pc = "input"
    /\ \E n1 \in 0..MaxRows, n0 \in 0..MaxRows, k \in 0..MaxIncomplete :
        /\ n1 + n0 <= MaxRows
        /\ df = AteTable(n1, n0, k)
    /\ roles \in AteRoles
    /\ ate_ret = <<>>
    /\ np_random \in 0..(RandomStates - 1)
    /\ IdleAnom /\ IdleCorr /\ IdleDisc /\ IdleSvc /\ IdleLag /\ IdleConc
    /\ IdleDr /\ IdleRate

\* ate_ret = doubly_robust_ate(df, treat_col, outcome_col, confounders); the
\* bootstrap leaves np.random advanced.
CallDoublyRobustAte ==
    /\ pc = "input"
    /\ \E num \in NumOracle :
        LET ret == doubly_robust_ate(df, roles.treat_col, roles.outcome_col,
                                     roles.confounders, num, np_random)
        IN  /\ ate_ret' = [k \in DOMAIN ret \ {"np_random"} |-> ret[k]]
            /\ np_random' = ret.np_random
    /\ pc' = "returned"
    /\ UNCHANGED <<df, roles, anomVars, corrVars, discVars, svcVars, lagVars, concVars,
                   drVars, rateVars>>

NextAte == CallDoublyRobustAte

SpecAte == InitAte /\ [][NextAte]_vars

(***************************************************************************)
(* The service: ingest and insights requests on the session store.         *)
(***************************************************************************)
MinIngestDays == 12
MaxIngestDays == 34
MaxPerDay == 3

\* The ids uuid4 can give a new session, and the ids a request can name.
SessionIds == {"s1"}
RequestIds == SessionIds \cup {"unknown"}

FullMealCols == {"date", "time", "carbs_g", "protein_g", "fat_g", "fiber_g",
                 "late_meal", "post_meal_walk10", "meal_auc", "meal_peak"}
UploadMealCols ==
    {FullMealCols,
     {"date", "late_meal", "post_meal_walk10", "meal_auc", "meal_peak"},
     {"date", "time", "carbs_g", "protein_g", "fat_g", "fiber_g"},
     {"time", "carbs_g", "meal_auc"}}

\* Nights alternate 7.5 h and 5.5 h ("mixed") or are all 7.5 h ("good").
SleepFile(nd, pat) ==
    [cols |-> {"date", "sleep_hours"}, date_dtype |-> "str",
     rows |-> [d \in 1..nd |->
                 [c \in {"date", "sleep_hours"} |->
                    IF c = "date" THEN <<d>>
                    ELSE IF pat = "mixed" /\ d % 2 = 0 THEN <<55>> ELSE <<75>>]]]

ActivityFile(nd) ==
    [cols |-> {"date", "steps", "workout_min"}, date_dtype |-> "str",
     rows |-> [d \in 1..nd |->
                 [c \in {"date", "steps", "workout_min"} |->
                    IF c = "date" THEN <<d>> ELSE IF c = "steps" THEN <<8000 + d>> ELSE <<30>>]]]

\* Fasting glucose is 90 mg/dL, and 120 on the last 5 days when stepped;
\* a gapped file has no row for days 1 and 5.
VitalsFile(nd, cols, stepped, gapped) ==
    LET days == SortedSet(IF gapped THEN (2..nd) \ {5} ELSE 1..nd)
    IN  [cols |-> cols, date_dtype |-> "str",
         rows |-> [k \in 1..Len(days) |->
                     [c \in cols |->
                        IF c = "date" THEN <<days[k]>>
                        ELSE IF c = "fg_fast_mgdl"
                        THEN (IF stepped /\ days[k] > nd - 5 THEN <<120>> ELSE <<90>>)
                        ELSE <<60>>]]]

\* per meals on each day 1..nd; every other meal is followed by a walk
\* ("mixed") or none is ("none"); the second meal has no meal_auc.
MealsFile(nd, per, cols, walk) ==
    [cols |-> cols, date_dtype |-> "str",
     rows |-> [i \in 1..(nd * per) |->
                 [c \in cols |->
                    IF c = "date" THEN <<((i - 1) \div per) + 1>>
                    ELSE IF c = "post_meal_walk10"
                    THEN (IF walk = "mixed" /\ i % 2 = 0 THEN <<1>> ELSE <<0>>)
                    ELSE IF c = "late_meal" THEN (IF i % 3 = 0 THEN <<1>> ELSE <<0>>)
                    ELSE IF c = "meal_auc" THEN (IF i = 2 THEN NA ELSE <<100 + i>>)
                    ELSE <<20 + (i % 5)>>]]]

VitalsVariants ==
    {[cols |-> {"date", "hrv", "rhr", "fg_fast_mgdl"}, stepped |-> TRUE, gapped |-> FALSE],
     [cols |-> {"date", "rhr", "fg_fast_mgdl"}, stepped |-> FALSE, gapped |-> TRUE],
     [cols |-> {"date", "hrv", "rhr", "fg_fast_mgdl"}, stepped |-> FALSE, gapped |-> TRUE]}

Upload(nd, per, sleep, walk, mc, v) ==
    [meals |-> MealsFile(nd, per, mc, walk), sleep |-> SleepFile(nd, sleep),
     activity |-> ActivityFile(nd), vitals |-> VitalsFile(nd, v.cols, v.stepped, v.gapped)]

Uploads ==
    {Upload(nd, per, "mixed", "mixed", FullMealCols, v) :
        nd \in {MinIngestDays, MaxIngestDays}, per \in 1..MaxPerDay, v \in VitalsVariants}
    \cup
    {Upload(MaxIngestDays, 1, sl, wk, mc, v) :
        sl \in {"mixed", "good"}, wk \in {"mixed", "none"}, mc \in UploadMealCols,
        v \in VitalsVariants}

\* What the numeric libraries return to one insights request.
InsightsOracle ==
    {[num1 |-> n[1], num2 |-> n[2], sp |-> [pearson |-> RP(NaN, NaN), spearman |-> r]] :
        n \in {q \in NumOracle \X NumOracle : q[1] # q[2]},
        r \in {RP(Num(300), Num(49)), RP(NaN, NaN)}}

\* What scipy gives the correlations endpoint.
CorrelationsOracle == {[a |-> 1, b |-> 0], [a |-> 3, b |-> 1]}

NoRequest == [endpoint |-> "none", sid |-> "", out |-> <<>>]

InitSvc ==
    /\ pc = "serving"
    /\ session_data = <<>>
    /\ resp = NoRequest
    /\ IdleAnom /\ IdleCorr /\ IdleDisc /\ IdleAte /\ IdleLag /\ IdleConc
    /\ np_random = 0
    /\ IdleDr /\ IdleRate

\* POST /ingest: a new session id; the tables are stored unless a file has
\* no date column.
IngestFrom(ups) ==
    /\ \E sid \in SessionIds \ DOMAIN session_data, up \in ups :
        LET r == ingest(up)
        IN  /\ session_data' = IF r.kind = "stored"
                               THEN [k \in DOMAIN session_data \cup {sid} |->
                                        IF k = sid THEN r.session ELSE session_data[k]]
                               ELSE session_data
            /\ resp' = [endpoint |-> "ingest", sid |-> sid, out |-> r.kind]
    /\ UNCHANGED <<pc, anomVars, corrVars, discVars, ateVars, lagVars, np_random, concVars,
                   drVars, rateVars>>

Ingest == IngestFrom(Uploads)

\* GET /insights?session_id=sid, for a stored session or an unknown id.
InsightsWith(oracle) ==
    /\ \E sid \in RequestIds, orc \in oracle :
        LET ret == insights(session_data, sid, orc, np_random)
        IN  /\ resp' = [endpoint |-> "insights", sid |-> sid, out |-> ret.out]
            /\ np_random' = ret.np_random
    /\ UNCHANGED <<pc, session_data, anomVars, corrVars, discVars, ateVars, lagVars, concVars,
                   drVars, rateVars>>

\* GET /timeline, /meals and /health-score, for a stored session or an
\* unknown id.
Timeline ==
    /\ \E sid \in RequestIds :
        resp' = [endpoint |-> "timeline", sid |-> sid, out |-> timeline(session_data, sid)]
    /\ UNCHANGED <<pc, session_data, anomVars, corrVars, discVars, ateVars, lagVars, np_random,
                   concVars, drVars, rateVars>>

Meals ==
    /\ \E sid \in RequestIds :
        resp' = [endpoint |-> "meals", sid |-> sid, out |-> meals_records(session_data, sid)]
    /\ UNCHANGED <<pc, session_data, anomVars, corrVars, discVars, ateVars, lagVars, np_random,
                   concVars, drVars, rateVars>>

HealthScore ==
    /\ \E sid \in RequestIds :
        resp' = [endpoint |-> "health-score", sid |-> sid,
                 out |-> health_score(session_data, sid)]
    /\ UNCHANGED <<pc, session_data, anomVars, corrVars, discVars, ateVars, lagVars, np_random,
                   concVars, drVars, rateVars>>

\* GET /predictions and /correlations.
Predictions ==
    /\ \E sid \in RequestIds, done \in {"response", "raise"} :
        LET ret == predictions(session_data, sid, done)
        IN  /\ resp' = [endpoint |-> "predictions", sid |-> sid, out |-> ret.out]
            /\ session_data' = ret.store
    /\ UNCHANGED <<pc, anomVars, corrVars, discVars, ateVars, lagVars, np_random, concVars,
                   drVars, rateVars>>

Correlations ==
    /\ \E sid \in RequestIds, st \in CorrelationsOracle :
        /\ resp' = [endpoint |-> "correlations", sid |-> sid,
                    out |-> correlations(session_data, sid, st)]
        /\ session_data' = correlations_stored(session_data, sid)
    /\ UNCHANGED <<pc, anomVars, corrVars, discVars, ateVars, lagVars, np_random, concVars,
                   drVars, rateVars>>

Insights == InsightsWith(InsightsOracle)

NextSvc == Ingest \/ Insights

SpecSvc == InitSvc /\ [][NextSvc]_vars

\* The service with all its read endpoints, on short uploads.
ReadDays == 22
ReadUploads ==
    {Upload(nd, per, "mixed", "mixed", mc, v) :
        nd \in {ReadDays}, per \in {1},
        mc \in {FullMealCols, {"date", "late_meal", "post_meal_walk10", "meal_auc", "meal_peak"}},
        v \in VitalsVariants}

IngestRead == IngestFrom(ReadUploads)
InsightsRead ==
    InsightsWith({orc \in InsightsOracle : orc.num1.ate < 0 /\ orc.sp.spearman.r # NaN})

NextRead ==
    IngestRead \/ InsightsRead \/ Timeline \/ Meals \/ HealthScore \/ Predictions \/ Correlations

SpecRead == InitSvc /\ [][NextRead]_vars

(***************************************************************************)
(* Two estimator calls running concurrently on the same tables, as two     *)
(* requests served by two threads of one process.  A call is cut where it  *)
(* touches what the other can see: the caller's tables and np.random.      *)
(***************************************************************************)
ConcDays == 20
MaxConcPerDay == 2

CallIds == {"c1", "c2"}
Estimators == {"ate", "discover"}

\* The arguments of an ATE call on the meals table.
ConcRoles ==
    [treat_col |-> "post_meal_walk10", outcome_col |-> "meal_auc", confounders |-> <<"late_meal">>]

ConcTables ==
    {[daily |-> DailyTable(ConcDays, dc, 0),
      meals |-> ToDate(MealsFile(ConcDays, per, FullMealCols, walk))] :
        per \in 1..MaxConcPerDay, walk \in {"mixed", "none"},
        dc \in {{"date", "sleep_hours", "hrv", "rhr", "fg_fast_mgdl", "steps", "workout_min"}}}

\* What the caller of an ATE call gets: the result without the position of
\* np.random.
AteResult(ret) == [k \in DOMAIN ret \ {"np_random"} |-> ret[k]]

\* The result of estimator fn called alone on the tables d and m, with
\* np.random at position g.
RunAlone(fn, d, m, st, g) ==
    IF fn = "ate"
    THEN AteResult(doubly_robust_ate(m, ConcRoles.treat_col, ConcRoles.outcome_col,
                                     ConcRoles.confounders, st.num, g))
    ELSE discover_hidden_correlations(d, m, st)

InitConc ==
    /\ pc = "running"
    /\ \E t \in ConcTables : daily = t.daily /\ meals = t.meals
    /\ \E b \in 0..1, num \in NumOracle : stat = [a |-> 2 * b + 1, b |-> b, num |-> num]
    /\ np_random = 0
    /\ \E f \in [CallIds -> Estimators] :
        calls = [c \in CallIds |->
                    [fn |-> f[c], at |-> "called", ret |-> <<>>,
                     alone |-> RunAlone(f[c], daily, meals, stat, 0)]]
    /\ disc_ret = <<>>
    /\ IdleAnom /\ IdleCorr /\ IdleAte /\ IdleSvc /\ IdleLag
    /\ IdleDr /\ IdleRate

\* causal.py lines 13-28 of call c: the complete rows, the size test and
\* the fits, all on data of the call; a call that gives None or raises
\* returns here.
AteFit(c) ==
    /\ calls[c].fn = "ate" /\ calls[c].at = "called"
    /\ LET ret == RunAlone("ate", daily, meals, stat, np_random)
       IN  calls' = [calls EXCEPT ![c].at = IF ret.kind = "estimate" THEN "fitted" ELSE "returned",
                                  ![c].ret = IF ret.kind = "estimate" THEN <<>> ELSE ret]
    /\ UNCHANGED <<pc, anomVars, corrVars, discVars, ateVars, svcVars, lagVars, np_random,
                   drVars, rateVars>>

\* causal.py lines 30-33 of call c: the bootstrap draws from np.random as
\* the other call left it, and leaves it advanced.
AteBootstrap(c) ==
    /\ calls[c].fn = "ate" /\ calls[c].at = "fitted"
    /\ LET ret == doubly_robust_ate(meals, ConcRoles.treat_col, ConcRoles.outcome_col,
                                    ConcRoles.confounders, stat.num, np_random)
       IN  /\ calls' = [calls EXCEPT ![c].at = "returned", ![c].ret = AteResult(ret)]
           /\ np_random' = ret.np_random
    /\ UNCHANGED <<pc, anomVars, corrVars, discVars, ateVars, svcVars, lagVars, drVars, rateVars>>

\* correlations.py line 24 of call c: the date column of the caller's meals
\* table is converted in place.
DiscoverConvertMeals(c) ==
    /\ calls[c].fn = "discover" /\ calls[c].at = "called"
    /\ meals' = ToDatetime(meals)
    /\ calls' = [calls EXCEPT ![c].at = "line25"]
    /\ UNCHANGED <<pc, daily, stat, disc_ret, anomVars, corrVars, ateVars, svcVars, lagVars,
                   np_random, drVars, rateVars>>

\* correlations.py line 25 of call c: the same for the daily table.
DiscoverConvertDaily(c) ==
    /\ calls[c].fn = "discover" /\ calls[c].at = "line25"
    /\ daily' = ToDatetime(daily)
    /\ calls' = [calls EXCEPT ![c].at = "line27"]
    /\ UNCHANGED <<pc, meals, stat, disc_ret, anomVars, corrVars, ateVars, svcVars, lagVars,
                   np_random, drVars, rateVars>>

\* correlations.py lines 27-71 of call c, on the tables as they are now.
DiscoverCompute(c) ==
    /\ calls[c].fn = "discover" /\ calls[c].at = "line27"
    /\ calls' = [calls EXCEPT ![c].at = "returned",
                              ![c].ret = discover_hidden_correlations(daily, meals, stat)]
    /\ UNCHANGED <<pc, anomVars, corrVars, discVars, ateVars, svcVars, lagVars, np_random,
                   drVars, rateVars>>

NextConc ==
    \E c \in CallIds :
        \/ AteFit(c)
        \/ AteBootstrap(c)
        \/ DiscoverConvertMeals(c)
        \/ DiscoverConvertDaily(c)
        \/ DiscoverCompute(c)

SpecConc == InitConc /\ [][NextConc]_vars

(***************************************************************************)
(* app/api/security.py, check_rate_limit.                                  *)
(*                                                                         *)
(* A string is the sequence of its pieces, so that the key                 *)
(* f"{session_id}:{action}" is a concatenation; time is in ticks of half   *)
(* an hour.                                                                *)
(***************************************************************************)
Hour == 2
LimitUpload == 10
LimitProcess == 20
LimitInsight == 50
LimitDefault == 10

\* key = f"{session_id}:{action}"
RateKey(session_id, action) == session_id \o <<":">> \o action

\* limits.get(action, 10)
Limit(action) ==
    IF action = <<"upload">> THEN LimitUpload
    ELSE IF action = <<"process">> THEN LimitProcess
    ELSE IF action = <<"insight">> THEN LimitInsight
    ELSE LimitDefault

\* The timestamps of the key that are less than one hour old at now; none
\* for a key that is not in the dict yet.
Pruned(rl, key, now) ==
    IF key \in DOMAIN rl THEN SelectSeq(rl[key], LAMBDA t : now - t < Hour) ELSE <<>>

\* The test of the limit with > in the place of >=.
AtLimit_OneMore(kept, limit) == Len(kept) > limit

\* len(self.rate_limits[key]) >= limit
AtLimit(kept, limit) == Len(kept) >= limit

\* check_rate_limit(session_id, action) at time now on the dict rl: what it
\* returns and the dict it leaves.
check_rate_limit(rl, session_id, action, now) ==
    LET key  == RateKey(session_id, action)
        kept == Pruned(rl, key, now)
        ok   == ~AtLimit(kept, Limit(action))
    IN  [ret |-> ok,
         rate_limits |-> [k \in DOMAIN rl \cup {key} |->
                            IF k # key THEN rl[k]
                            ELSE IF ok THEN Append(kept, now) ELSE kept]]

(***************************************************************************)
(* The calls of check_rate_limit: up to MaxRateCalls calls at              *)
(* non-decreasing times over one hour, to a new HealthDataSecurity or to   *)
(* one that has answered a burst of calls of one session and action at     *)
(* time 0, up to MaxBurstOver calls past its limit.                        *)
(***************************************************************************)
MaxRateCalls == 3
MaxBurstOver == 1

RateSessions == {<<"a">>, <<"a", ":", "x">>}
RateActions == {<<"upload">>, <<"process">>, <<"insight">>, <<"x", ":", "insight">>}
RatePairs == RateSessions \X RateActions

\* The dict and the accepted calls after a burst of b calls of pair w at
\* time 0.
AfterBurst(w, b) ==
    LET a == Min(b, Limit(w[2]))
    IN  [rate_limits |-> (RateKey(w[1], w[2]) :> [i \in 1..a |-> 0]),
         accepted |-> [v \in RatePairs |-> IF v = w THEN [i \in 1..a |-> 0] ELSE <<>>],
         last |-> [pair |-> w, time |-> 0, ret |-> b <= Limit(w[2])]]

InitRate ==
    /\ pc = "serving"
    /\ clock = 0
    /\ \/ /\ rate_limits = <<>>
          /\ rate_log = [accepted |-> [v \in RatePairs |-> <<>>],
                         last |-> [pair |-> <<>>, time |-> 0, ret |-> TRUE], calls |-> 0]
       \/ \E w \in RatePairs, over \in 0..MaxBurstOver :
             LET s == AfterBurst(w, Limit(w[2]) + over - 1)
             IN  /\ rate_limits = s.rate_limits
                 /\ rate_log = [accepted |-> s.accepted, last |-> s.last, calls |-> 0]
    /\ np_random = 0
    /\ IdleAnom /\ IdleCorr /\ IdleDisc /\ IdleAte /\ IdleSvc /\ IdleLag /\ IdleConc
    /\ IdleDr

\* datetime.utcnow() moves on.
Tick ==
    /\ clock < Hour
    /\ clock' = clock + 1
    /\ UNCHANGED <<pc, rate_limits, rate_log, anomVars, corrVars, discVars, ateVars, svcVars,
                   lagVars, np_random, concVars, drVars>>

CheckRateLimit ==
    /\ rate_log.calls < MaxRateCalls
    /\ \E w \in RatePairs :
        LET r == check_rate_limit(rate_limits, w[1], w[2], clock)
        IN  /\ rate_limits' = r.rate_limits
            /\ rate_log' = [accepted |-> IF r.ret
                                         THEN [rate_log.accepted EXCEPT ![w] = Append(@, clock)]
                                         ELSE rate_log.accepted,
                            last |-> [pair |-> w, time |-> clock, ret |-> r.ret],
                            calls |-> rate_log.calls + 1]
    /\ UNCHANGED <<pc, clock, anomVars, corrVars, discVars, ateVars, svcVars, lagVars,
                   np_random, concVars, drVars>>

NextRate == Tick \/ CheckRateLimit
SpecRate == InitRate /\ [][NextRate]_vars

(***************************************************************************)
(* The scores of doubly_robust_ate: the rows of use with the values the    *)
(* fitted models predict, two kinds of row in turn.                        *)
(***************************************************************************)
MaxDrRows == 31
MaxDrSeed == 1

\* The rows a fit can give: either arm, the outcome model of the row's own
\* arm exact or off, the propensity low, even or high.
DrRowKinds ==
    {[T |-> 1, Y |-> 120, p |-> 500000, mu0 |-> 100, mu1 |-> 120],
     [T |-> 1, Y |-> 120, p |-> 200000, mu0 |-> 90,  mu1 |-> 120],
     [T |-> 1, Y |-> 131, p |-> 900000, mu0 |-> 100, mu1 |-> 120],
     [T |-> 1, Y |-> 113, p |-> 300000, mu0 |-> 100, mu1 |-> 120],
     [T |-> 0, Y |-> 100, p |-> 500000, mu0 |-> 100, mu1 |-> 125],
     [T |-> 0, Y |-> 100, p |-> 800000, mu0 |-> 100, mu1 |-> 95],
     [T |-> 0, Y |-> 108, p |-> 100000, mu0 |-> 100, mu1 |-> 120],
     [T |-> 0, Y |-> 93,  p |-> 700000, mu0 |-> 100, mu1 |-> 120]}

DrInputs ==
    {[i \in 1..n |-> IF i % 3 = 0 THEN b ELSE a] :
        n \in MinRows..MaxDrRows, a \in DrRowKinds, b \in DrRowKinds}

InitDr ==
    /\ pc = "input"
    /\ fit \in DrInputs
    /\ dr_est = <<>>
    /\ np_random \in 0..MaxDrSeed
    /\ IdleAnom /\ IdleCorr /\ IdleDisc /\ IdleAte /\ IdleSvc /\ IdleLag /\ IdleConc
    /\ IdleRate

CallDrEstimate ==
    /\ pc = "input"
    /\ dr_est' = DrEstimate(fit, np_random)
    /\ pc' = "returned"
    /\ np_random' = (np_random + 1) % RandomStates
    /\ UNCHANGED <<fit, anomVars, corrVars, discVars, ateVars, svcVars, lagVars, concVars,
                   rateVars>>

NextDr == CallDrEstimate
SpecDr == InitDr /\ [][NextDr]_vars

(***************************************************************************)
(* Claims about doubly_robust_ate.                                         *)
(***************************************************************************)
RoleCols == {roles.treat_col, roles.outcome_col} \cup SeqToSet(roles.confounders)
CompleteRows == {i \in 1..Len(df.rows) : \A c \in RoleCols : NotNA(df.rows[i][c])}
ArmRows(a) == {i \in CompleteRows : df.rows[i][roles.treat_col] = <<a>>}

\* C1: whenever fewer than 30 rows survive the removal of the rows with a
\* missing treatment, outcome or confounder value, doubly_robust_ate
\* returns "no result" (None): no model is fitted, no number is produced.
C1_NoResultBelow30 ==
    (pc = "returned" /\ RoleCols \subseteq df.cols /\ Cardinality(CompleteRows) < 30)
        => ate_ret.kind = "None"

\* C1 witness: 30 rows or more in the table, 29 of them complete, both arms
\* present, and no result.
C1_Witness ==
    /\ pc = "returned"
    /\ RoleCols \subseteq df.cols
    /\ Len(df.rows) >= 30
    /\ Cardinality(CompleteRows) = 29
    /\ ArmRows(0) # {} /\ ArmRows(1) # {}
    /\ ate_ret.kind = "None"

\* C2: when the 30 or more surviving rows all belong to one arm, the call
\* does not fail: the empty arm's prediction is the constant mean of Y and
\* an estimate is returned.
C2_OneArmStillEstimates ==
    (/\ pc = "returned"
     /\ RoleCols \subseteq df.cols
     /\ Cardinality(CompleteRows) >= 30
     /\ ArmRows(0) = {} \/ ArmRows(1) = {})
        => /\ ate_ret.kind = "estimate"
           /\ ArmRows(0) = {} => ate_ret.mu0 = "mean_of_Y"
           /\ ArmRows(1) = {} => ate_ret.mu1 = "mean_of_Y"

(***************************************************************************)
(* Claims about the insights endpoint.                                     *)
(***************************************************************************)
\* The last request was an insights request for a stored session whose
\* tables have every required column.
FullInsightsRequest ==
    /\ resp.endpoint = "insights"
    /\ resp.sid \in DOMAIN session_data
    /\ INSIGHTS_MEAL_COLS \subseteq add_meal_features(session_data[resp.sid].meals).cols
    /\ INSIGHTS_DAILY_COLS \subseteq session_data[resp.sid].daily.cols

RequestFrame ==
    MealFrame(session_data[resp.sid].daily, add_meal_features(session_data[resp.sid].meals))

\* The estimate of treat on the request's frame reaches the propensity fit
\* (columns present, 30 complete rows or more) and the fit fails.
FitFails(treat, confs) ==
    /\ SeqToSet(confs) \subseteq RequestFrame.cols
    /\ LET use == DropNA(RequestFrame, <<treat, "meal_auc">> \o confs)
       IN  Len(use) >= MinRows /\ PropensityFitFails(use, treat)

HasCard(id) == \E i \in 1..Len(resp.out.cards) : resp.out.cards[i].id = id

\* C3: when the model fitting of an estimate fails inside doubly_robust_ate,
\* the insights endpoint treats it like insufficient data: it still returns
\* its response, with no card for that estimate.
C3_FitFailureSkipsTheCard ==
    (/\ FullInsightsRequest
     /\ \/ FitFails("sleep_low", SleepConfounders(RequestFrame))
        \/ FitFails("post_meal_walk10", WalkConfounders))
        => /\ resp.out.kind = "response"
           /\ FitFails("sleep_low", SleepConfounders(RequestFrame)) => ~HasCard("sleep_auc")
           /\ FitFails("post_meal_walk10", WalkConfounders) => ~HasCard("walk_auc")

(***************************************************************************)
(* Claims about corr_with_p.                                               *)
(***************************************************************************)
BothPresent(xs, ys) == {i \in 1..Len(xs) : NotNA(xs[i]) /\ NotNA(ys[i])}

\* C7: with fewer than 14 positions where both values are present,
\* corr_with_p gives no result: r and p are None, never a number; and
\* whenever it gives a result, its n is the number of positions with both
\* values present, and is at least 14.
C7_NoResultBelow14 ==
    pc = "returned" =>
        LET cnt == Cardinality(BothPresent(x, y))
        IN  /\ cnt < 14 => (corr_ret.r = None /\ corr_ret.p = None)
            /\ corr_ret.r # None => (corr_ret.n = cnt /\ cnt >= 14)

\* C7 witness: 13 paired observations out of 16 positions and no result;
C7_Witness ==
    /\ pc = "returned"
    /\ Len(x) = 16
    /\ Cardinality(BothPresent(x, y)) = 13
    /\ corr_ret.r = None

(***************************************************************************)
(* Claims about discover_hidden_correlations.                              *)
(***************************************************************************)
Returned == pc = "returned" /\ disc_ret.kind = "return"
UnorderedPair(e) == {e.metric1, e.metric2}

ObviousPairSets ==
    {{"carbs_g", "meal_auc"}, {"carbs_g", "meal_peak"}, {"sleep_hours", "hrv"},
     {"steps", "workout_min"}, {"protein_g", "fat_g"}}

\* C8: a returned pair has is_hidden = false exactly when the unordered
\* pair is one of the obvious pairs carbs_g-meal_auc, carbs_g-meal_peak,
\* sleep_hours-hrv, steps-workout_min, protein_g-fat_g; every other pair
\* has is_hidden = true.
C8_HiddenIffNotObvious ==
    Returned =>
        \A i \in 1..Len(disc_ret.list) :
            disc_ret.list[i].is_hidden = (UnorderedPair(disc_ret.list[i]) \notin ObviousPairSets)

\* The pairs the call retains, from the joined table: every pair of
\* distinct catalog metrics that are columns of it and pass the gate; none
\* when the meals table has no aggregated column (the call returns before
\* the join).  daily and meals are read after the call, which changes only
\* the type of their dates.
JoinedDays(c, m1, m2) ==
    {c.rows[i]["date"][1] : i \in {j \in 1..Len(c.rows) : NotNA(c.rows[j][m1]) /\ NotNA(c.rows[j][m2])}}

RetainedPairs ==
    LET c == Combined(daily, meals)
    IN  IF meals.cols \cap {"carbs_g", "protein_g", "fat_g", "fiber_g", "late_meal",
                            "post_meal_walk10", "meal_auc", "meal_peak"} = {}
        THEN {}
        ELSE
        {pr \in {<<all_metrics[i], all_metrics[j]>> : i, j \in 1..Len(all_metrics)} :
            /\ MetricIndex(pr[1]) < MetricIndex(pr[2])
            /\ pr[1] \in c.cols /\ pr[2] \in c.cols
            /\ LET rp == Scipy(stat, pr[1], pr[2]).spearman
               IN  /\ IsNum(rp.r) /\ IsNum(rp.p)
                   /\ Abs(rp.r.v) >= 300 /\ rp.p.v < 50
                   /\ Cardinality(JoinedDays(c, pr[1], pr[2])) >= 20}

\* e ranks strictly above f: hidden before obvious, then stronger |r|.
RanksAbove(h1, r1, h2, r2) ==
    \/ h1 /\ ~h2
    \/ h1 = h2 /\ Abs(r1) > Abs(r2)

\* A pair is hidden when it is none of the obvious pairs.
HiddenPair(m1, m2) == {m1, m2} \notin ObviousPairSets

\* C9: the returned list has at most 10 entries, every hidden pair before
\* every obvious pair, |r| non-increasing within each group, and no
\* retained pair that was left out ranks above a returned one.
C9_TopTenInRankOrder ==
    Returned =>
        LET L == disc_ret.list
            got == {<<L[i].metric1, L[i].metric2>> : i \in 1..Len(L)}
        IN  /\ Len(L) <= 10
            /\ got \subseteq RetainedPairs
            /\ Len(L) = 10 \/ got = RetainedPairs
            /\ \A i, j \in 1..Len(L) :
                 i < j => ~RanksAbove(HiddenPair(L[j].metric1, L[j].metric2), L[j].correlation,
                                      HiddenPair(L[i].metric1, L[i].metric2), L[i].correlation)
            /\ \A pr \in RetainedPairs \ got : \A i \in 1..Len(L) :
                 ~RanksAbove(HiddenPair(pr[1], pr[2]),
                             Scipy(stat, pr[1], pr[2]).spearman.r.v,
                             HiddenPair(L[i].metric1, L[i].metric2), L[i].correlation)

\* C9, with each pair classed by the is_hidden flag the call computed for
\* it instead of by the list of obvious pairs.
C9_TopTenInOrderOfTheFlag ==
    Returned =>
        LET L == disc_ret.list
            got == {<<L[i].metric1, L[i].metric2>> : i \in 1..Len(L)}
        IN  /\ Len(L) <= 10
            /\ got \subseteq RetainedPairs
            /\ Len(L) = 10 \/ got = RetainedPairs
            /\ \A i, j \in 1..Len(L) :
                 i < j => ~RanksAbove(L[j].is_hidden, L[j].correlation,
                                      L[i].is_hidden, L[i].correlation)
            /\ \A pr \in RetainedPairs \ got : \A i \in 1..Len(L) :
                 ~RanksAbove(is_hidden_correlation(pr[1], pr[2]),
                             Scipy(stat, pr[1], pr[2]).spearman.r.v,
                             L[i].is_hidden, L[i].correlation)

\* C9 witness: more than 10 pairs retained, 10 returned, hidden and obvious
\* pairs among the retained.
C9_Witness ==
    /\ Returned
    /\ Len(disc_ret.list) = 10
    /\ Cardinality(RetainedPairs) > 10
    /\ \E pr \in RetainedPairs : ~is_hidden_correlation(pr[1], pr[2])
    /\ \E i \in 1..9 :
         Abs(disc_ret.list[i].correlation) > Abs(disc_ret.list[i + 1].correlation)

\* C10: every returned pair has |r| >= 0.3, p < 0.05 and n >= 20, n being
\* the number of days of the joined table on which both metrics are
\* present; each unordered pair of distinct catalog metrics appears at most
\* once.
C10_ReturnedPairsPassTheGate ==
    Returned =>
        LET L == disc_ret.list
            c == Combined(daily, meals)
        IN  /\ \A i \in 1..Len(L) :
                 /\ Abs(L[i].correlation) >= 300
                 /\ L[i].p_value < 50
                 /\ L[i].sample_size >= 20
                 /\ L[i].sample_size = Cardinality(JoinedDays(c, L[i].metric1, L[i].metric2))
                 /\ L[i].metric1 # L[i].metric2
                 /\ \E a, b \in 1..Len(all_metrics) :
                      all_metrics[a] = L[i].metric1 /\ all_metrics[b] = L[i].metric2
            /\ \A i, j \in 1..Len(L) : i # j => UnorderedPair(L[i]) # UnorderedPair(L[j])

\* C10 witness: a pair returned with exactly 20 common days, fewer than the
\* days of the daily table, while another pair of the same data has fewer
\* than 20 and is left out.
C10_Witness ==
    /\ Returned
    /\ \E i \in 1..Len(disc_ret.list) :
         /\ disc_ret.list[i].sample_size = 20
         /\ Len(daily.rows) > 20
    /\ \E m1 \in {"hrv"}, m2 \in {"meal_auc", "carbs_g"} :
         LET c == Combined(daily, meals)
         IN  /\ m1 \in c.cols /\ m2 \in c.cols
             /\ Cardinality(JoinedDays(c, m1, m2)) < 20
             /\ Cardinality(JoinedDays(c, m1, m2)) >= 14
             /\ Abs(Scipy(stat, m1, m2).spearman.r.v) >= 300
             /\ Scipy(stat, m1, m2).spearman.p.v < 50

(***************************************************************************)
(* Claims about the anomaly detector.                                      *)
(***************************************************************************)
FlagsOf(s) == Flags(rolling_median_mad(s).z, K10)

\* a..b (1-based) is a maximal contiguous run of flagged points of f.
MaximalRun(f, a, b) ==
    /\ a <= b
    /\ \A i \in a..b : f[i] = 1
    /\ a = 1 \/ f[a - 1] = 0
    /\ b = Len(f) \/ f[b + 1] = 0

ReportedSpans(f, mr) ==
    {w \in (1..Len(f)) \X (1..Len(f)) : MaximalRun(f, w[1], w[2]) /\ w[2] - w[1] + 1 >= mr}

\* C4: anomaly_runs returns exactly the maximal contiguous runs of flagged
\* points of length >= min_run: each once, in series order, no shorter run
\* and no fragment; a run open at the series end is closed at the last index.
C4_ExactlyTheLongMaximalRuns ==
    pc = "returned" =>
        LET want == ReportedSpans(FlagsOf(series), min_run)
        IN  /\ Len(runs) = Cardinality(want)
            /\ \A w \in want : \E j \in 1..Len(runs) :
                   runs[j].start_date = dates[w[1]] /\ runs[j].end_date = dates[w[2]]
            /\ \A j \in 1..Len(runs) : \E w \in want :
                   runs[j].start_date = dates[w[1]] /\ runs[j].end_date = dates[w[2]]
            /\ \A j \in 1..(Len(runs) - 1) : runs[j].end_date < runs[j + 1].start_date

\* C4 witness: a short run left out, a run closed by an unflagged point and
\* a run closed at the series end, in one call.
C4_Witness ==
    /\ pc = "returned"
    /\ min_run = 2
    /\ Len(runs) = 1
    /\ runs[1].end_date = dates[Len(series)]
    /\ \E a \in 1..Len(series) : MaximalRun(FlagsOf(series), a, a)

AllObservedEqual(s) ==
    \A i, j \in 1..Len(s) : (NotNA(s[i]) /\ NotNA(s[j])) => s[i] = s[j]

\* C5: a series whose observed values are all equal, with or without
\* missing values, has no flagged point and no run.
C5_ConstantSeriesNeverFlags ==
    (pc = "returned" /\ AllObservedEqual(series)) =>
        /\ \A i \in 1..Len(series) : FlagsOf(series)[i] = 0
        /\ runs = <<>>

\* C5 witness: a constant series longer than the window, with a missing
\* value, after the call.
C5_Witness ==
    /\ pc = "returned"
    /\ AllObservedEqual(series)
    /\ Len(series) > window
    /\ \E i \in 1..Len(series) : IsNA(series[i])
    /\ runs = <<>>

\* The series is constant except for an upward step over the 5 points
\* p..p+4, and has the min_periods unshifted points a baseline needs.
IsUpStep(s, p) ==
    /\ p >= 1 /\ p + 4 <= Len(s)
    /\ Len(s) - 5 >= min_periods
    /\ \E d \in 1..10 : s = StepSeries(Len(s), p, d)

OneRunOver(p) ==
    /\ Len(runs) = 1
    /\ runs[1].start_date = dates[p]
    /\ runs[1].end_date = dates[p + 4]

\* C6 as stated: for every placement of a 5-point upward step in a constant
\* series, anomaly_runs (k = 2.5, min_run = 3) returns exactly one run,
\* covering the 5 shifted points.
C6_Original_EveryPlacement ==
    \A p \in 1..Len(series) :
        (pc = "returned" /\ min_run = 3 /\ IsUpStep(series, p)) => OneRunOver(p)

\* C6 amended: the same, for every placement that leaves at least 6
\* unshifted points before the step (the step starts at index 6 or later,
\* 0-based), so that each shifted point has a rolling baseline and the
\* shifted points stay a minority of every window.
C6_OneRunAfterWarmup ==
    \A p \in 7..Len(series) :
        (pc = "returned" /\ min_run = 3 /\ IsUpStep(series, p)) => OneRunOver(p)

\* C6 witness: a step after the warm-up, in a series longer than the window,
\* reported as one run.
C6_Witness ==
    /\ pc = "returned"
    /\ Len(series) > window + 4
    /\ IsUpStep(series, 12)
    /\ OneRunOver(12)


(***************************************************************************)
(* Claims about find_lag_correlations.                                     *)
(***************************************************************************)
LagReturned == pc = "returned" /\ lag_ret # <<>> /\ lag_ret.kind = "return"

\* C11: every entry find_lag_correlations returns has lag_days in
\* 1..max_lag, |r| >= 0.3, p < 0.05 and n >= 15, and the whole list is in
\* non-increasing order of |r|.
C11_LagEntriesPassTheGateInOrder ==
    LagReturned =>
        /\ \A i \in 1..Len(lag_ret.list) :
            LET e == lag_ret.list[i]
            IN  /\ e.lag_days \in 1..max_lag
                /\ Abs(e.correlation) >= 300
                /\ e.p_value < 50
                /\ e.sample_size >= 15
        /\ \A i, j \in 1..Len(lag_ret.list) :
            i < j => Abs(lag_ret.list[i].correlation) >= Abs(lag_ret.list[j].correlation)

\* A list with entries of two hypotheses, two lags and two strengths.
C11_Witness ==
    /\ LagReturned
    /\ \E i, j \in 1..Len(lag_ret.list) :
        /\ lag_ret.list[i].predictor # lag_ret.list[j].predictor
        /\ lag_ret.list[i].lag_days # lag_ret.list[j].lag_days
        /\ Abs(lag_ret.list[i].correlation) > Abs(lag_ret.list[j].correlation)

\* C12: a result with lag_days = L pairs the outcome observed on date d
\* with the predictor observed on date d - L, also when the table has
\* calendar days missing.
C12_LagPairsByCalendarDay ==
    LagReturned =>
        \A k \in 1..Len(lag_ret.list) :
            LET e == lag_ret.list[k]
                daily_sorted == SortByDate(daily)
                lagged == Shift(Column(daily_sorted, e.predictor), e.lag_days)
                outcome == Column(daily_sorted, e.outcome)
            IN  \A i \in 1..Len(daily_sorted.rows) :
                    NotNA(lagged[i]) /\ NotNA(outcome[i]) =>
                        lagged[i] = CellOn(daily, daily_sorted.rows[i]["date"][1] - e.lag_days,
                                           e.predictor)

\* A result at lag 2 on a table that has no row for day 4.
C12_Witness ==
    /\ LagReturned
    /\ "date" \in daily.cols /\ 4 \notin Dates(daily) /\ 5 \in Dates(daily)
    /\ \E k \in 1..Len(lag_ret.list) : lag_ret.list[k].lag_days = 2

\* C12 on tables with a row for every calendar day: the pairing is by
\* date.
C12_PairsByDayWithoutGaps ==
    LagReturned /\ "date" \in daily.cols
        /\ (\A d \in Dates(daily) : d = 1 \/ d - 1 \in Dates(daily))
        => C12_LagPairsByCalendarDay

(***************************************************************************)
(* Claims about concurrent calls and the random source.                    *)
(***************************************************************************)
\* C13: in every interleaving of two concurrent estimator calls, each call
\* returns the result it would return if it ran alone.
C13_ConcurrentCallsReturnAsAlone ==
    pc = "running" =>
        \A c \in CallIds : calls[c].at = "returned" => calls[c].ret = calls[c].alone

\* Two ATE calls have both returned an estimate.
C13_Witness ==
    /\ pc = "running"
    /\ \A c \in CallIds :
        calls[c].fn = "ate" /\ calls[c].at = "returned" /\ calls[c].ret.kind = "estimate"

\* C13 for a correlation call: discover_hidden_correlations returns what it
\* returns alone, whatever the other call is.
C13_DiscoverReturnsAsAlone ==
    pc = "running" =>
        \A c \in CallIds :
            calls[c].fn = "discover" /\ calls[c].at = "returned" => calls[c].ret = calls[c].alone

\* C14: a doubly_robust_ate call neither reads nor advances the random
\* state of the process.
C14_CallLeavesGlobalRandomStateAlone == [][np_random' = np_random]_vars

\* A call has returned an estimate, with its bootstrap interval.
C14_Witness == pc = "returned" /\ ate_ret # <<>> /\ ate_ret.kind = "estimate"

(***************************************************************************)
(* Claims about what the estimators do to their arguments.                 *)
(***************************************************************************)
EstimatorInputs == <<dates, series, x, y, daily, meals, df>>

\* C15: no estimator modifies the tables or series passed to it: after a
\* call the caller's inputs have the same columns, values and value types
\* as before.
C15_EstimatorsLeaveInputsUnchanged == [][EstimatorInputs' = EstimatorInputs]_vars

\* discover_hidden_correlations has returned a list for tables that both
\* have a date column.
C15_Witness ==
    /\ pc = "returned" /\ disc_ret # <<>> /\ disc_ret.kind = "return"
    /\ "date" \in daily.cols /\ "date" \in meals.cols

(***************************************************************************)
(* More claims about doubly_robust_ate.                                    *)
(***************************************************************************)
\* C16: whenever doubly_robust_ate returns an estimate, its n is the number
\* of input rows with no missing value in the treatment, the outcome and
\* every confounder column, and n >= 30.
C16_NCountsTheCompleteRows ==
    (pc = "returned" /\ ate_ret # <<>> /\ ate_ret.kind = "estimate")
        => /\ RoleCols \subseteq df.cols
           /\ ate_ret.n = Cardinality(CompleteRows)
           /\ ate_ret.n >= 30

\* An estimate from a table where rows were deleted for a missing
\* treatment, outcome and confounder value.
C16_Witness ==
    /\ pc = "returned" /\ ate_ret # <<>> /\ ate_ret.kind = "estimate"
    /\ \A c \in RoleCols : \E i \in 1..Len(df.rows) : IsNA(df.rows[i][c])
    /\ ate_ret.n < Len(df.rows)

(***************************************************************************)
(* More claims about anomaly_runs.                                         *)
(***************************************************************************)
\* C17: for every run that anomaly_runs returns on a series in date order
\* (one point a date), end_date - start_date + 1 >= min_run, in days.
C17_RunSpansMinRunDays ==
    pc = "returned" =>
        \A j \in 1..Len(runs) : runs[j].end_date - runs[j].start_date + 1 >= min_run

\* A run of exactly min_run = 3 days is returned.
C17_Witness ==
    /\ pc = "returned" /\ min_run = 3
    /\ \E j \in 1..Len(runs) : runs[j].end_date - runs[j].start_date + 1 = 3

\* A returned run spans the two days that have no point.
C17_RunOverMissingDays ==
    /\ pc = "returned"
    /\ \E j \in 1..Len(runs) : runs[j].start_date <= 8 /\ runs[j].end_date >= 11

\* C18: a missing value inside the trailing window is left out of both the
\* rolling median and the rolling MAD, and makes neither undefined: an
\* observed point whose window holds at least 7 observed values has a
\* robust z-score, and is flagged when it is far enough from the median.
C18_MissingValueLeftOutOfTheWindow ==
    pc = "returned" =>
        \A i \in 1..Len(series) :
            (NotNA(series[i]) /\ Len(Observed(RollWindow(series, i))) >= min_periods)
                => NotNA(rolling_median_mad(series).z[i])

\* A point 10 above a flat baseline of 7 or more observed values, with a
\* missing value in its window.
C18_Witness ==
    /\ pc = "returned"
    /\ \E i \in 1..Len(series) :
        LET w == RollWindow(series, i)
        IN  /\ series[i] = <<20>>
            /\ \E j \in 1..Len(w) : IsNA(w[j])
            /\ Len(SelectSeq(w, LAMBDA c : c = <<10>>)) >= min_periods

(***************************************************************************)
(* Claims about malformed input of corr_with_p.                            *)
(***************************************************************************)
Malformed(xs, ys) ==
    \/ Len(xs) # Len(ys)
    \/ \E i \in 1..Len(xs) : IsText(xs[i])
    \/ \E i \in 1..Len(ys) : IsText(ys[i])

Tier(n) == IF n >= 100 THEN "high" ELSE IF n >= 50 THEN "moderate" ELSE "low"

\* C20: every effect estimate that the insights endpoint turns into a card
\* gets its confidence tier from n alone: high when n >= 100, moderate when
\* 50 <= n < 100, low when n < 50, for the sleep card and the walk card
\* alike.
C20_ConfidenceTierFromN ==
    (resp.endpoint = "insights" /\ resp.out.kind = "response")
        => \A i \in 1..Len(resp.out.cards) :
            LET c == resp.out.cards[i]
            IN  c.type = "causal_uplift" => c.confidence = Tier(c.n)

\* A response with a sleep card and a walk card, both of 100 meals or more.
C20_Witness ==
    /\ resp.endpoint = "insights" /\ resp.out.kind = "response"
    /\ \E i, j \in 1..Len(resp.out.cards) :
        /\ resp.out.cards[i].id = "sleep_auc" /\ resp.out.cards[i].n >= 100
        /\ resp.out.cards[j].id = "walk_auc" /\ resp.out.cards[j].n >= 100

\* C20 for the sleep card alone.
C20_SleepCardTierFromN ==
    (resp.endpoint = "insights" /\ resp.out.kind = "response")
        => \A i \in 1..Len(resp.out.cards) :
            LET c == resp.out.cards[i]
            IN  c.id = "sleep_auc" => c.confidence = Tier(c.n)


(***************************************************************************)
(* Claims about the scores of doubly_robust_ate and their bootstrap.       *)
(***************************************************************************)
DrRows == 1..Len(fit)

\* The residual of a row against the outcome model of its own arm, weighted
\* by the propensity of that arm, with the sign of the arm.
OwnArmResidual(r) ==
    IF r.T = 1 THEN ((r.Y - r.mu1) * PUnit) \div (r.p + eps)
    ELSE 0 - (((r.Y - r.mu0) * PUnit) \div (PUnit - r.p + eps))

\* Both outcome regressions reproduce Y on the rows of their arm.
ExactOutcomeFits ==
    \A i \in DrRows : IF fit[i].T = 1 THEN fit[i].mu1 = fit[i].Y ELSE fit[i].mu0 = fit[i].Y

\* C21: ate is the mean over the n surviving rows of the scores dr, and
\* the score of a row is the propensity-weighted residual of its own arm
\* plus mu1 - mu0 at the row, neither part left out; when both outcome
\* regressions reproduce Y on their rows, ate is the mean of mu1 - mu0,
\* whatever the propensities.
C21_AteIsTheMeanOfTheFullScores ==
    pc = "returned" =>
        /\ dr_est.n = Len(fit)
        /\ Len(dr_est.dr) = Len(fit)
        /\ \A i \in DrRows :
              dr_est.dr[i] = OwnArmResidual(fit[i]) + (fit[i].mu1 - fit[i].mu0)
        /\ dr_est.ate = <<SumSeq(dr_est.dr), Len(fit)>>
        /\ ExactOutcomeFits =>
              dr_est.ate[1] = SumSeq([i \in DrRows |-> fit[i].mu1 - fit[i].mu0])

\* C21 witness: both arms among the rows, each outcome regression exact on
\* its arm, two different propensities, and an effect that is not zero.
C21_Witness ==
    /\ pc = "returned"
    /\ \E i, j \in DrRows : fit[i].T = 1 /\ fit[j].T = 0 /\ fit[i].p # fit[j].p
    /\ ExactOutcomeFits
    /\ dr_est.ate[1] = SumSeq([i \in DrRows |-> fit[i].mu1 - fit[i].mu0])
    /\ dr_est.ate[1] # 0

\* The resample sums of the returned scores under the returned indices, and
\* the smallest and the largest score.
ResampleSums == Boots(dr_est.dr, dr_est.idx)
MinScore == CHOOSE v \in SeqToSet(dr_est.dr) : \A w \in SeqToSet(dr_est.dr) : v <= w
MaxScore == CHOOSE v \in SeqToSet(dr_est.dr) : \A w \in SeqToSet(dr_est.dr) : v >= w

\* C25: the interval comes from exactly 300 resamples, each of exactly n
\* indices drawn with replacement from the n scores; lo and hi are the
\* 2.5th and the 97.5th percentile of the 300 resample means (position
\* 7.475 and 291.525 of the sorted means, counted from 0), so lo <= hi and
\* both lie between the smallest and the largest score.
C25_IntervalFromThe300ResampleMeans ==
    pc = "returned" =>
        LET n == Len(dr_est.dr)
        IN  /\ Len(dr_est.idx) = 300
            /\ \A b \in 1..Len(dr_est.idx) :
                  /\ Len(dr_est.idx[b]) = n
                  /\ \A j \in 1..n : dr_est.idx[b][j] \in 1..n
            /\ dr_est.ci[1] = 525 * Kth(ResampleSums, 8) + 475 * Kth(ResampleSums, 9)
            /\ dr_est.ci[2] = 475 * Kth(ResampleSums, 292) + 525 * Kth(ResampleSums, 293)
            /\ dr_est.ci[1] <= dr_est.ci[2]
            /\ 1000 * n * MinScore <= dr_est.ci[1]
            /\ dr_est.ci[2] <= 1000 * n * MaxScore

\* C25 witness: scores that differ, an index drawn twice in one resample,
\* and an interval strictly inside the range of the scores.
C25_Witness ==
    /\ pc = "returned"
    /\ \E j, k \in 1..Len(dr_est.idx[1]) : j # k /\ dr_est.idx[1][j] = dr_est.idx[1][k]
    /\ 1000 * Len(dr_est.dr) * MinScore < dr_est.ci[1]
    /\ dr_est.ci[1] < dr_est.ci[2]
    /\ dr_est.ci[2] < 1000 * Len(dr_est.dr) * MaxScore

(***************************************************************************)
(* Further claims about anomaly_runs.                                      *)
(***************************************************************************)
\* The indices of the points whose date lies within returned run j.
RunIndices(j) ==
    {i \in 1..Len(dates) : runs[j].start_date <= dates[i] /\ dates[i] <= runs[j].end_date}

\* C22: a point is flagged only when it is itself observed and its
\* trailing 14-point window holds at least 7 observed values; none of the
\* first 6 points of a series is ever flagged or part of a reported run.
C22_FlaggedOnlyWithSevenObserved ==
    pc = "returned" =>
        /\ \A i \in 1..Len(series) :
              FlagsOf(series)[i] = 1 =>
                  /\ NotNA(series[i])
                  /\ Len(Observed(SubSeq(series, Max(1, i - 13), i))) >= 7
                  /\ i > 6
        /\ \A j \in 1..Len(runs) : \A i \in RunIndices(j) : i > 6

\* C22 witness: the 7th point is flagged, on the 7 observed values of its
\* window, and a reported run starts at it.
C22_Witness ==
    /\ pc = "returned"
    /\ Len(series) >= 7
    /\ FlagsOf(series)[7] = 1
    /\ \E j \in 1..Len(runs) : runs[j].start_date = dates[7]

\* Returned run j is the run of flagged points a..b: the dates at a and at
\* b, the mean of the b - a + 1 values at a..b, and the rolling median at b,
\* all of them numbers.
RunCarries(j, a, b) ==
    /\ runs[j].start_date = dates[a]
    /\ runs[j].end_date = dates[b]
    /\ \A i \in a..b : NotNA(series[i])
    /\ runs[j].mean = [sum |-> SumSeq([i \in 1..(b - a + 1) |-> series[a + i - 1][1]]),
                       cnt |-> b - a + 1]
    /\ NotNA(RollingMedian2(series, b))
    /\ runs[j].baseline2 = RollingMedian2(series, b)

\* C23: each returned run carries the date at its first flagged index, the
\* date at its last flagged index, the mean of the series over exactly the
\* run's indices and the rolling median at the run's last index; the mean
\* and the baseline are numbers, never missing, for a run closed by an
\* unflagged point and for a run closed by the end of the series alike.
C23_RunCarriesDatesMeanBaseline ==
    pc = "returned" =>
        \A j \in 1..Len(runs) :
            \E w \in ReportedSpans(FlagsOf(series), min_run) : RunCarries(j, w[1], w[2])

\* C23 witness: a returned run that the end of the series closes, and its
\* mean lies above its baseline.
C23_Witness ==
    /\ pc = "returned"
    /\ \E j \in 1..Len(runs) :
          /\ runs[j].end_date = dates[Len(dates)]
          /\ RunCarries(j, Len(series) - runs[j].mean.cnt + 1, Len(series))
          /\ 2 * runs[j].mean.sum > runs[j].baseline2[1] * runs[j].mean.cnt

\* A returned run that an unflagged point closes.
C23_RunClosedByUnflaggedPoint ==
    /\ pc = "returned"
    /\ \E j \in 1..Len(runs) : runs[j].end_date < dates[Len(dates)]

(***************************************************************************)
(* Further claims about the insights endpoint.                             *)
(***************************************************************************)
\* The rows of the request's frame that are complete in the sleep
\* estimate's outcome and confounders, and those of them whose
\* previous-night sleep is known.
SleepOutcomeRows ==
    DropNA(RequestFrame, <<"meal_auc">> \o SleepConfounders(RequestFrame))
SleepKnownRows == SelectSeq(SleepOutcomeRows, LAMBDA r : NotNA(r["sleep_prev"]))

SleepCardN == (CHOOSE i \in 1..Len(resp.out.cards) : resp.out.cards[i].id = "sleep_auc")

\* C24: in the sleep estimate a meal whose previous-night sleep is unknown
\* (a meal of the first day, or of a date absent from the daily table) has
\* a missing treatment and is removed with the incomplete rows: the n of
\* the sleep card counts the rows with a known previous-night sleep only.
C24_UnknownSleepRowsRemoved ==
    (FullInsightsRequest /\ resp.out.kind = "response" /\ HasCard("sleep_auc"))
        => resp.out.cards[SleepCardN].n = Len(SleepKnownRows)

\* C24 witness: a sleep card whose n counts every row complete in outcome
\* and confounders, a meal with an unknown previous-night sleep among them
\* as a row with sleep_low = 0.
C24_Witness ==
    /\ FullInsightsRequest /\ resp.out.kind = "response" /\ HasCard("sleep_auc")
    /\ \E i \in 1..Len(SleepOutcomeRows) :
          IsNA(SleepOutcomeRows[i]["sleep_prev"]) /\ SleepOutcomeRows[i]["sleep_low"] = <<0>>
    /\ resp.out.cards[SleepCardN].n = Len(SleepOutcomeRows)
    /\ resp.out.cards[SleepCardN].n > Len(SleepKnownRows)

\* An optional confounder is absent from the request's frame.
OptionalConfounderAbsent == ~({"carbs_pct", "fiber_g"} \subseteq RequestFrame.cols)

\* The confounders of the walk estimate that the request's frame has.
PresentWalkConfounders == SelectSeq(WalkConfounders, LAMBDA c : c \in RequestFrame.cols)

\* C26: with every column of INSIGHTS_MEAL_COLS and INSIGHTS_DAILY_COLS
\* present, insights returns a response with insufficient_data = false and
\* does not fail because an optional confounder (carbs_pct, fiber_g) is
\* absent: an absent confounder is left out of both effect estimates.  (A
\* request whose propensity fit fails on the confounders present is set
\* aside.)
C26_AbsentConfounderLeftOut ==
    (/\ FullInsightsRequest
     /\ OptionalConfounderAbsent
     /\ ~FitFails("sleep_low", SleepConfounders(RequestFrame))
     /\ ~FitFails("post_meal_walk10", PresentWalkConfounders))
        => resp.out.kind = "response" /\ resp.out.insufficient_data = FALSE

\* C26 witness: every required column present, fiber_g and carbs_pct
\* absent, no fit that fails, and the request raises KeyError.
C26_Witness ==
    /\ FullInsightsRequest
    /\ "carbs_pct" \notin RequestFrame.cols /\ "fiber_g" \notin RequestFrame.cols
    /\ SleepConfounders(RequestFrame) = <<"late_meal", "post_meal_walk10">>
    /\ ~FitFails("sleep_low", SleepConfounders(RequestFrame))
    /\ ~FitFails("post_meal_walk10", PresentWalkConfounders)
    /\ resp.out = Raised("KeyError")

(***************************************************************************)
(* Further claims about discover_hidden_correlations.                      *)
(***************************************************************************)
NoAggregatedMealColumn == AggSpec(meals).sum \cup AggSpec(meals).mean = {}

\* C29: discover_hidden_correlations returns an empty list, without
\* raising, when the meals table has no date column or none of the meal
\* columns it aggregates (the daily table having its date column).
C29_EmptyListWithoutMealColumns ==
    (/\ pc = "returned"
     /\ "date" \in daily.cols
     /\ "date" \notin meals.cols \/ NoAggregatedMealColumn)
        => disc_ret.kind = "return" /\ disc_ret.list = <<>>

\* C29 witness: a meals table with meal columns and no date column, a
\* daily table with its date column, and the call raises KeyError.
C29_Witness ==
    /\ pc = "returned"
    /\ "date" \in daily.cols
    /\ "date" \notin meals.cols /\ ~NoAggregatedMealColumn
    /\ disc_ret.kind = "raise" /\ disc_ret.exc = "KeyError"

\* The call returns an empty list for a meals table with its date column
\* and none of the aggregated columns.
C29_EmptyListWithoutAggregatedColumns ==
    /\ pc = "returned"
    /\ "date" \in daily.cols /\ "date" \in meals.cols /\ NoAggregatedMealColumn
    /\ disc_ret.kind = "return" /\ disc_ret.list = <<>>

(***************************************************************************)
(* Claims about check_rate_limit.                                          *)
(***************************************************************************)
\* The calls of pair w that returned True at a time within [t, t + Hour).
AcceptedWithin(w, t) ==
    {i \in 1..Len(rate_log.accepted[w]) :
        t <= rate_log.accepted[w][i] /\ rate_log.accepted[w][i] < t + Hour}

\* C30: for every (session, action) and every window shorter than one
\* hour, at most limit(action) of the calls made in the window return True
\* (10 for upload, 20 for process, 50 for insight, 10 for any other
\* action), after any sequence of calls at non-decreasing times.
C30_AtMostLimitPerHour ==
    \A w \in RatePairs : \A t \in 0..clock :
        Cardinality(AcceptedWithin(w, t)) <=
            (IF w[2] = <<"upload">> THEN 10
             ELSE IF w[2] = <<"process">> THEN 20
             ELSE IF w[2] = <<"insight">> THEN 50 ELSE 10)

\* C30 witness: 50 insight calls of one session accepted within the last
\* hour, some of them after the first, and the call just made refused.
C30_Witness ==
    \E w \in RatePairs :
        /\ w[2] = <<"insight">>
        /\ clock > 0
        /\ Cardinality(AcceptedWithin(w, clock - Hour + 1)) = 50
        /\ rate_log.accepted[w][Len(rate_log.accepted[w])] = clock
        /\ rate_log.last = [pair |-> w, time |-> clock, ret |-> FALSE]

(***************************************************************************)
(* Claims about the read endpoints and the session store.                  *)
(***************************************************************************)
ReadEndpoints ==
    {"timeline", "meals", "insights", "health-score", "predictions", "correlations"}

\* C27: the read endpoints (timeline, meals, insights, health-score,
\* predictions, correlations) leave the session store unchanged: a request
\* to one of them changes no column, value or value type of a stored table.
C27_ReadsLeaveTheStoreUnchanged ==
    [][resp'.endpoint \in ReadEndpoints => session_data' = session_data]_vars

\* C27 witness: after a correlations request for a stored session, the date
\* column of its stored daily table holds datetime64 values where ingest
\* stored dates; the stored meals table still holds dates.
C27_Witness ==
    /\ resp.endpoint = "correlations"
    /\ resp.sid \in DOMAIN session_data
    /\ resp.out.kind = "response"
    /\ session_data[resp.sid].daily.date_dtype = "datetime64"
    /\ session_data[resp.sid].meals.date_dtype = "date"

\* The same after a predictions request.
C27_PredictionsConvertStoredDates ==
    /\ resp.endpoint = "predictions"
    /\ resp.sid \in DOMAIN session_data
    /\ session_data[resp.sid].daily.date_dtype = "datetime64"

\* C28: for a session_id that no ingest created, every read endpoint
\* returns its explicit empty or no-data response (insights: cards = [],
\* insufficient_data = true, processing_status = "no_data") and never
\* raises, whatever was ingested and requested before on other sessions.
C28_UnknownSessionGetsNoData ==
    (resp.endpoint \in ReadEndpoints /\ resp.sid \notin DOMAIN session_data)
        => /\ resp.out.kind = "response"
           /\ resp.endpoint = "insights" =>
                 /\ resp.out.cards = <<>>
                 /\ resp.out.insufficient_data = TRUE
                 /\ resp.out.processing_status = "no_data"
           /\ resp.endpoint = "timeline" =>
                 /\ resp.out.dates = <<>> /\ resp.out.sleep_hours = <<>>
                 /\ resp.out.hrv = <<>> /\ resp.out.rhr = <<>>
                 /\ resp.out.fg_fast_mgdl = <<>>
           /\ resp.endpoint = "meals" => resp.out.meals = 0
           /\ resp.endpoint = "health-score" =>
                 resp.out.error = "No session data" /\ resp.out.scores = {}
           /\ resp.endpoint = "predictions" => resp.out.error = "No session data"
           /\ resp.endpoint = "correlations" =>
                 /\ resp.out.error = "No session data"
                 /\ resp.out.hidden_correlations = <<>>
                 /\ resp.out.lag_correlations = <<>>

\* C28 witness: another session is stored and has been read (its daily
\* dates converted by a request), and an insights request for an unknown id
\* gets the no-data response.
C28_Witness ==
    /\ \E sid \in DOMAIN session_data : session_data[sid].daily.date_dtype = "datetime64"
    /\ resp.endpoint = "insights"
    /\ resp.sid \notin DOMAIN session_data
    /\ resp.out.kind = "response"
    /\ resp.out.cards = <<>>
    /\ resp.out.insufficient_data = TRUE
    /\ resp.out.processing_status = "no_data"

====
